---- MODULE Spec2Model ----
(***************************************************************************)
(* Model of the arcade combat engine (js/engine/GameEngine.js) with the    *)
(* player craft (js/engine/Spaceship.js) and the obstacles, projectiles    *)
(* and pickups (js/engine/GameObjects.js).                                 *)
(*                                                                         *)
(* Units.  Time is counted in milliseconds.  Health, shield strength and   *)
(* damage are counted in hundredths of a point, so that the rates of       *)
(* Spaceship.update (30 and 10 points per second) are 3 and 1 hundredths   *)
(* per millisecond.  The combo multiplier is counted in tenths (1.0 is     *)
(* 10), experience in tenths of a point, the weapon cooldown and fire      *)
(* interval in microseconds.  Arithmetic is exact; the IEEE rounding of    *)
(* the JavaScript doubles is not modelled.  The craft's horizontal         *)
(* position is counted in thousandths of a pixel and its horizontal        *)
(* velocity in thousandths of a pixel per second; the friction and damping *)
(* factors applied to the velocity are rounded towards zero to that unit.  *)
(*                                                                         *)
(* Geometry.  Apart from the craft's horizontal motion, positions and     *)
(* velocities are not part of the model: the                               *)
(* outcome of every distance test of the code (circle collision, off       *)
(* screen, within a chain-reaction radius) is an input of the step, except *)
(* where the code fixes it (the fragments of a split lie at half the       *)
(* parent's radius from the parent's position).  Every Math.random() draw  *)
(* is an input as well.  The engine runs in its default 'lane-shooter'     *)
(* mode, the only mode the repository constructs it in.                    *)
(***************************************************************************)
EXTENDS Integers, Sequences, FiniteSets, TLC

VARIABLES
  state,              \* GameEngine.state: menu, playing, paused, gameover
  score,              \* GameEngine.score
  wave,               \* GameEngine.wave
  kills,              \* GameEngine.kills
  time,               \* GameEngine.time (ms)
  player,             \* GameEngine.player, a Spaceship
  asteroids,          \* GameEngine.asteroids
  projectiles,        \* GameEngine.projectiles
  powerUps,           \* GameEngine.powerUps
  hazards,            \* GameEngine.hazards
  comboSystem,        \* GameEngine.comboSystem
  bossSystem,         \* GameEngine.bossSystem
  weaponSystem,       \* GameEngine.weaponSystem
  upgradeSystem,      \* GameEngine.upgradeSystem
  config,             \* GameEngine.config (the fields the engine rewrites)
  asteroidSpawnTimer, \* GameEngine.asteroidSpawnTimer (ms)
  hazardSpawnTimer,   \* GameEngine.hazardSpawnTimer (ms)
  waveTimer,          \* GameEngine.waveTimer (ms)
  keys,               \* GameEngine.keys and mouse.down: the held controls
  timeouts,           \* pending setTimeout callbacks of checkChainReaction
  game,               \* SpaceLanesGame around the engine: its user and the
                      \* history of its game-over handling and saveScore calls
  storage,            \* StorageManager: the users and the scores in localStorage
  saved,              \* history: the scores of the successful saveScore calls
  bodies,             \* the objects handed to the CollisionSystem
  particles,          \* ParticleSystem.particles of a particle system on its own
  sinceHit,           \* history of the craft on its own: the simulated time (ms)
                      \* since its last loss of health, -1 if there was none
  awards,             \* history: the score awards made by the last call
  events,             \* history: the splits and spawns of the last call
  call,               \* history: the last call, its argument and result
  steps               \* history: number of calls and events so far

vars == <<state, score, wave, kills, time, player, asteroids, projectiles,
          powerUps, hazards, comboSystem, bossSystem, weaponSystem,
          upgradeSystem, config, asteroidSpawnTimer, hazardSpawnTimer,
          waveTimer, keys, timeouts, game, storage, saved, bodies, particles, sinceHit,
          awards, events, call, steps>>

\* The session state of the engine: everything but the history variables.
session == <<state, score, wave, kills, time, player, asteroids, projectiles,
             powerUps, hazards, comboSystem, bossSystem, weaponSystem,
             upgradeSystem, config, asteroidSpawnTimer, hazardSpawnTimer,
             waveTimer, keys, timeouts>>

----------------------------------------------------------------------------
(* Bounds of the exploration: the calls and events of a run, the live     *)
(* asteroids, projectiles, pickups and pending callbacks, and the distance  *)
(* tests of one frame that find a contact                                   *)

MaxSteps == 3
MaxLive == 4
MaxProjectiles == 2
MaxPowerUps == 3
MaxTimeouts == 3
MaxContacts == 1

----------------------------------------------------------------------------
(* Small helpers *)

Max(a, b) == IF a >= b THEN a ELSE b

Min(a, b) == IF a <= b THEN a ELSE b

\* splice(i, 1) of a JavaScript array, on a 1-based sequence
RemoveAt(s, i) == SubSeq(s, 1, i - 1) \o SubSeq(s, i + 1, Len(s))

Abs(v) == IF v >= 0 THEN v ELSE -v

Sign(v) == IF v > 0 THEN 1 ELSE IF v < 0 THEN -1 ELSE 0

\* v * num / den, rounded towards zero
Scale(v, num, den) == Sign(v) * ((Abs(v) * num) \div den)

----------------------------------------------------------------------------
(* Spaceship (js/engine/Spaceship.js) *)

ShieldDepletionRate == 3

ShieldRegenRate == 1

InvulnerabilityTime == 1000

PlayerHealth == 10000

ShieldMaxStrength == 10000

DefaultFireRate == 200000

\* canvas.width, in pixels
Width == 800

\* margin of the horizontal bounds, in pixels
LaneMargin == 50

\* new Spaceship(...) as built by GameEngine.setupPlayer
NewSpaceship ==
  [ health |-> PlayerHealth,
    maxHealth |-> PlayerHealth,
    invulnerable |-> FALSE,
    invulnerabilityTimer |-> 0,
    shield |-> [ active |-> FALSE,
                 strength |-> ShieldMaxStrength,
                 maxStrength |-> ShieldMaxStrength,
                 powerUpActive |-> FALSE,
                 powerUpTimer |-> 0 ],
    weapons |-> [ cooldown |-> 0, fireRate |-> DefaultFireRate ],
    maxSpeed |-> 500,
    x |-> (Width * 1000) \div 2,
    vx |-> 0 ]

activateShield(p) ==
  IF p.shield.strength > 0 THEN [p EXCEPT !.shield.active = TRUE] ELSE p

deactivateShield(p) == [p EXCEPT !.shield.active = FALSE]

\* takeDamage with a shield that lets the hit through to the hull
takeDamageThrough(p, amount) ==
  IF p.invulnerable
    THEN [ship |-> p, destroyed |-> FALSE]
    ELSE LET h == Max(0, p.health - amount)
             s == Max(0, p.shield.strength - amount)
         IN  IF p.shield.active /\ p.shield.strength > 0
               THEN [ship |-> [p EXCEPT !.shield.strength = s,
                                        !.shield.active = (s # 0),
                                        !.health = h],
                     destroyed |-> h <= 0]
               ELSE [ship |-> [p EXCEPT !.health = h,
                                        !.invulnerable = TRUE,
                                        !.invulnerabilityTimer = InvulnerabilityTime],
                     destroyed |-> h <= 0]

\* takeDamage without the invulnerability after a hit
takeDamageWhileImmune(p, amount) ==
  IF p.shield.active /\ p.shield.strength > 0
    THEN LET s == Max(0, p.shield.strength - amount)
         IN  [ship |-> [p EXCEPT !.shield.strength = s,
                                 !.shield.active = (s # 0)],
              destroyed |-> FALSE]
    ELSE LET h == Max(0, p.health - amount)
         IN  [ship |-> [p EXCEPT !.health = h,
                                 !.invulnerable = TRUE,
                                 !.invulnerabilityTimer = InvulnerabilityTime],
              destroyed |-> h <= 0]

\* Spaceship.takeDamage: the craft after the call and the value returned
takeDamage(p, amount) ==
  IF p.invulnerable
    THEN [ship |-> p, destroyed |-> FALSE]
    ELSE IF p.shield.active /\ p.shield.strength > 0
      THEN LET s == Max(0, p.shield.strength - amount)
           IN  [ship |-> [p EXCEPT !.shield.strength = s,
                                   !.shield.active = (s # 0)],
                destroyed |-> FALSE]
      ELSE LET h == Max(0, p.health - amount)
           IN  [ship |-> [p EXCEPT !.health = h,
                                   !.invulnerable = TRUE,
                                   !.invulnerabilityTimer = InvulnerabilityTime],
                destroyed |-> h <= 0]

heal(p, amount) == [p EXCEPT !.health = Min(p.maxHealth, p.health + amount)]

isDestroyed(p) == p.health <= 0

\* Spaceship.fire: the cooldown gate; a shot starts the cooldown
canFire(p) == ~(p.weapons.cooldown > 0)

fire(p) == [p EXCEPT !.weapons.cooldown = p.weapons.fireRate]

\* PhysicsBody.update(deltaTime) for the craft in its lane, on which no force
\* acts: the velocity is damped by 0.999 ^ (60 deltaTime), which is
\* 1 - 0.00006 dt to three decimals, and the position advances by it
physicsUpdate(p, dt) ==
  LET v == Scale(p.vx, 1000 - (6 * dt) \div 100, 1000)
  IN  [p EXCEPT !.vx = v, !.x = p.x + Scale(v, dt, 1000)]

\* limitVelocity(maxSpeed) for a velocity along x
limitVelocity(p) ==
  IF Abs(p.vx) > p.maxSpeed * 1000
    THEN [p EXCEPT !.vx = Sign(p.vx) * p.maxSpeed * 1000]
    ELSE p

\* Spaceship.update(deltaTime)
shipUpdate(p, dt) ==
  LET p0 == limitVelocity(physicsUpdate(p, dt))
      p1 == IF p0.shield.powerUpActive
              THEN LET t == p0.shield.powerUpTimer - dt
                   IN  IF t <= 0
                         THEN [p0 EXCEPT !.shield.powerUpTimer = t,
                                         !.shield.powerUpActive = FALSE,
                                         !.shield.active = FALSE]
                         ELSE [p0 EXCEPT !.shield.powerUpTimer = t]
              ELSE p0
      p2 == IF p1.shield.active
              THEN LET s == Max(0, p1.shield.strength - ShieldDepletionRate * dt)
                   IN  [p1 EXCEPT !.shield.strength = s,
                                  !.shield.active = (s # 0)]
              ELSE IF p1.shield.strength < p1.shield.maxStrength
                THEN [p1 EXCEPT !.shield.strength =
                        Min(p1.shield.maxStrength,
                            p1.shield.strength + ShieldRegenRate * dt)]
                ELSE p1
      p3 == IF p2.weapons.cooldown > 0
              THEN [p2 EXCEPT !.weapons.cooldown = Max(0, p2.weapons.cooldown - dt * 1000)]
              ELSE p2
      p4 == IF p3.invulnerable
              THEN LET t == Max(0, p3.invulnerabilityTimer - dt)
                   IN  [p3 EXCEPT !.invulnerabilityTimer = t,
                                  !.invulnerable = (t # 0)]
              ELSE p3
  IN  p4

----------------------------------------------------------------------------
(* Asteroid, Projectile, PowerUp (js/engine/GameObjects.js) *)

\* Asteroid.sizeMap: the collision radius, and the initial health, of a size
sizeMap(size) ==
  CASE size = "small" -> 20
    [] size = "medium" -> 35
    [] size = "large" -> 50
    [] size = "huge" -> 70

\* massMap of the Asteroid constructor, in tenths
massMap(size) ==
  CASE size = "small" -> 5
    [] size = "medium" -> 10
    [] size = "large" -> 20
    [] size = "huge" -> 40

\* new Asteroid(x, y, size, velocity)
NewAsteroid(size) ==
  [ size |-> size,
    radius |-> sizeMap(size),
    mass |-> massMap(size),
    health |-> sizeMap(size) * 100,
    damage |-> 0,
    isBoss |-> FALSE,
    scoreValue |-> 0 ]

MaxDamage == 10000

\* Asteroid.takeDamage(amount) adding the amount to the health
asteroidGainsHealth(a, amount) ==
  [a EXCEPT !.health = a.health + amount,
            !.damage = Min(MaxDamage, a.damage + amount)]

\* Asteroid.takeDamage(amount): the asteroid after the call; the call returns
\* whether its health is <= 0
asteroidTakeDamage(a, amount) ==
  [a EXCEPT !.health = a.health - amount,
            !.damage = Min(MaxDamage, a.damage + amount)]

\* The test of the kill taking an asteroid of health 0 for a live one
asteroidDestroyedBelow(a) == a.health < 0

asteroidDestroyed(a) == a.health <= 0

\* sizeHierarchy of Asteroid.split: the next smaller size
nextSize(size) ==
  CASE size = "huge" -> "large"
    [] size = "large" -> "medium"
    [] size = "medium" -> "small"

\* split() handing out fragments of the parent's own size, whatever it is
splitSameSize(a, count) == [k \in 1..Max(count, 2) |-> NewAsteroid(a.size)]

\* Asteroid.split(), count being the value drawn for the number of fragments
split(a, count) ==
  IF a.size = "small"
    THEN << >>
    ELSE [k \in 1..count |-> NewAsteroid(nextSize(a.size))]

\* the values 2 + Math.floor(Math.random() * 2) can take, where split draws
splitCounts(a) == IF a.size = "small" THEN {0} ELSE {2, 3}

\* a call of split(): the asteroid it was called on, after the call, and the
\* fragments returned
splitCall(a, count) == [self |-> a, fragments |-> split(a, count)]

ProjectileLifetime == 3000

PowerUpLifetime == 10000

\* new Projectile(position, velocity, angle, damage)
NewProjectile(damage) == [damage |-> damage, age |-> 0]

\* new PowerUp(x, y, type)
NewPowerUp(type) == [type |-> type, age |-> 0, collected |-> FALSE]

PowerUpTypes == {"health", "shield", "weapon", "speed"}

----------------------------------------------------------------------------
(* GameEngine: constants of the constructor *)

Phases == {"menu", "playing", "paused", "gameover"}

MaxDeltaTime == 100

ComboMaxTime == 3000

MaxMultiplier == 80

WaveInterval == 30000

HazardSpawnInterval == 15000

BossWaveInterval == 5

StartMaxAsteroids == 20

ChainDamage == 2000

DefaultCollisionDamage == 2000

BossScoreValue == 1000

BossDamage == 4000

\* weaponSystem.weapons: damage in hundredths, fireRate in microseconds,
\* duration in ms, the number of projectiles of one shot
Weapon(w) ==
  CASE w = "default" -> [damage |-> 1000, fireRate |-> 200000, duration |-> 0, shots |-> 1]
    [] w = "laser" -> [damage |-> 500, fireRate |-> 50000, duration |-> 15000, shots |-> 1]
    [] w = "missile" -> [damage |-> 3000, fireRate |-> 500000, duration |-> 20000, shots |-> 1]
    [] w = "shotgun" -> [damage |-> 800, fireRate |-> 400000, duration |-> 18000, shots |-> 3]

SpecialWeapons == {"laser", "missile", "shotgun"}

Upgrades == {"damage", "fireRate", "health", "speed", "shield"}

\* scoreMap of the projectile kill in update
killScoreMap(size) ==
  CASE size = "small" -> 100
    [] size = "medium" -> 50
    [] size = "large" -> 25
    [] size = "huge" -> 10

\* scoreMap of checkChainReaction
chainScoreMap(size) ==
  CASE size = "small" -> 50
    [] size = "medium" -> 25
    [] size = "large" -> 15
    [] size = "huge" -> 5

\* Math.floor(base * multiplier), the multiplier being in tenths
floorMul(base, multiplier) == (base * multiplier) \div 10

\* An entry of the award history
Award(kind, amount, a, multiplier) ==
  [ kind |-> kind, amount |-> amount, size |-> a.size, isBoss |-> a.isBoss,
    multiplier |-> multiplier ]

NoObstacle == [size |-> "none", isBoss |-> FALSE]

\* An entry of the event history: a split() of the asteroid a that returned
\* count fragments, or the spawn of a (count is 1)
Event(kind, a, count) ==
  [kind |-> kind, size |-> a.size, isBoss |-> a.isBoss, count |-> count]

----------------------------------------------------------------------------
(* GameEngine: the methods, as functions of the engine record e.  A method  *)
(* whose outcome depends on a distance test or on a random draw yields the *)
(* set of its possible outcomes.                                           *)

\* increaseCombo without the cap of the multiplier
increaseComboUncapped(e) ==
  LET c == e.comboSystem.count + 1
  IN  [e EXCEPT !.comboSystem = [count |-> c, timer |-> 0, multiplier |-> 10 + c]]

\* increaseCombo leaving the multiplier as it was
increaseComboStale(e) ==
  [e EXCEPT !.comboSystem.count = @ + 1, !.comboSystem.timer = 0]

increaseCombo(e) ==
  LET c == e.comboSystem.count + 1
  IN  [e EXCEPT !.comboSystem =
         [count |-> c, timer |-> 0, multiplier |-> Min(10 + c, MaxMultiplier)]]

\* resetCombo banking the bonus of every streak
resetComboBonusAlways(e) ==
  LET c == e.comboSystem.count
      bonus == c * 50
  IN  [e EXCEPT !.score = e.score + bonus,
                !.awards = Append(e.awards,
                   Award("bonus", bonus, NoObstacle, e.comboSystem.multiplier)),
                !.comboSystem = [count |-> 0, timer |-> 0, multiplier |-> 10]]

resetCombo(e) ==
  LET c == e.comboSystem.count
      bonus == c * 50
      e1 == IF c >= 10
              THEN [e EXCEPT !.score = e.score + bonus,
                             !.awards = Append(e.awards,
                                Award("bonus", bonus, NoObstacle,
                                      e.comboSystem.multiplier))]
              ELSE e
  IN  [e1 EXCEPT !.comboSystem = [count |-> 0, timer |-> 0, multiplier |-> 10]]

\* autoUpgrade, u being the upgrade drawn
autoUpgrade(e, u) ==
  LET e1 == [e EXCEPT !.upgradeSystem.upgrades[u] = @ + 1]
  IN  CASE u = "health" ->
             [e1 EXCEPT !.player =
                heal([e1.player EXCEPT !.maxHealth = @ + 1000], 1000)]
        [] u = "speed" -> [e1 EXCEPT !.player.maxSpeed = @ + 20]
        [] u = "shield" -> [e1 EXCEPT !.player.shield.maxStrength = @ + 2000]
        [] u = "fireRate" ->
             [e1 EXCEPT !.player.weapons.fireRate = Max(50000, (@ * 95) \div 100)]
        [] OTHER -> e1

\* addExperience with an if in the place of its while loop: one level at most
levelUpOnce(e) ==
  LET u == e.upgradeSystem
  IN  IF u.experience >= u.experienceToNext * 10
        THEN LET e1 == [e EXCEPT !.upgradeSystem.experience = @ - u.experienceToNext * 10,
                                 !.upgradeSystem.level = @ + 1,
                                 !.upgradeSystem.skillPoints = @ + 1,
                                 !.upgradeSystem.experienceToNext = (@ * 3) \div 2]
             IN  { autoUpgrade(e1, up) : up \in Upgrades }
        ELSE {e}

\* the while loop of addExperience
RECURSIVE levelUps(_)
levelUps(e) ==
  LET u == e.upgradeSystem
  IN  IF u.experience >= u.experienceToNext * 10
        THEN LET e1 == [e EXCEPT !.upgradeSystem.experience = @ - u.experienceToNext * 10,
                                 !.upgradeSystem.level = @ + 1,
                                 !.upgradeSystem.skillPoints = @ + 1,
                                 !.upgradeSystem.experienceToNext = (@ * 3) \div 2]
             IN  UNION { levelUps(autoUpgrade(e1, up)) : up \in Upgrades }
        ELSE {e}

\* addExperience(amount), amount in tenths of a point
addExperience(e, amount) ==
  levelUps([e EXCEPT !.upgradeSystem.experience = @ + amount])

playerFire(e) ==
  LET w == Weapon(e.weaponSystem.currentWeapon)
      p == [e.player EXCEPT !.weapons.fireRate = w.fireRate]
      damage == (w.damage * (10 + e.upgradeSystem.upgrades.damage)) \div 10
  IN  IF canFire(p)
        THEN [e EXCEPT !.player = fire(p),
                       !.projectiles = @ \o [k \in 1..w.shots |-> NewProjectile(damage)]]
        ELSE [e EXCEPT !.player = p]

MaxSpeedX == 450

AccelX == 2800

DecelX == 2000

\* config.frictionX, in hundredths
FrictionX == 92

\* config.maxSpeedX after n speed pickups, each of which multiplies it by 1.2
RECURSIVE maxSpeedX(_)
maxSpeedX(n) == IF n = 0 THEN MaxSpeedX * 1000 ELSE (maxSpeedX(n - 1) * 12) \div 10

\* handleInput in lane-shooter mode: the horizontal velocity eases towards
\* the target velocity of the held direction keys
laneMovement(e, dt) ==
  LET inputX == (IF "a" \in e.keys \/ "arrowleft" \in e.keys THEN -1 ELSE 0)
                + (IF "d" \in e.keys \/ "arrowright" \in e.keys THEN 1 ELSE 0)
      maxSpeed == maxSpeedX(e.config.maxSpeedX)
      currentVx == e.player.vx
      targetVx == inputX * maxSpeed
      velocityDiff == targetVx - currentVx
      rate == IF Abs(targetVx) > Abs(currentVx) THEN AccelX ELSE DecelX
      deltaV == Sign(velocityDiff) * rate * dt
      v1 == IF Abs(velocityDiff) > 100 /\ Abs(deltaV) < Abs(velocityDiff)
              THEN currentVx + deltaV
              ELSE targetVx
      v2 == IF inputX = 0 /\ Abs(currentVx) > 1000
              THEN Scale(v1, FrictionX, 100)
              ELSE v1
  IN  [e EXCEPT !.player.vx = Max(-maxSpeed, Min(maxSpeed, v2))]

\* handleInput: keep the craft within the horizontal bounds
laneBounds(p) ==
  LET p1 == IF p.x < LaneMargin * 1000
              THEN [p EXCEPT !.x = LaneMargin * 1000, !.vx = Max(0, p.vx)]
              ELSE p
  IN  IF p1.x > (Width - LaneMargin) * 1000
        THEN [p1 EXCEPT !.x = (Width - LaneMargin) * 1000, !.vx = Min(0, p1.vx)]
        ELSE p1

\* handleInput(deltaTime) in lane-shooter mode: move, fire, shield, bounds
handleInput(e, dt) ==
  LET e0 == laneMovement(e, dt)
      e1 == IF " " \in e0.keys \/ "mouse" \in e0.keys THEN playerFire(e0) ELSE e0
      e2 == IF "shift" \in e1.keys \/ "e" \in e1.keys
              THEN [e1 EXCEPT !.player = activateShield(@)]
              ELSE [e1 EXCEPT !.player = deactivateShield(@)]
  IN  [e2 EXCEPT !.player = laneBounds(@)]

\* spawnAsteroid: the asteroid it builds for the size drawn
SpawnedAsteroid(size, w) ==
  [ size |-> size,
    radius |-> sizeMap(size),
    mass |-> massMap(size),
    health |-> sizeMap(size) * 10 * (9 + w),
    damage |-> sizeMap(size) * 5 * (9 + w),
    isBoss |-> FALSE,
    scoreValue |-> 0 ]

AsteroidSizes == {"small", "medium", "large", "huge"}

\* spawnAsteroid without its test of the capacity
spawnAsteroidAnyCount(e) ==
  IF e.bossSystem.active
    THEN {e}
    ELSE { [e EXCEPT !.asteroids = Append(@, SpawnedAsteroid(size, e.wave)),
                     !.events = Append(@, Event("spawn", SpawnedAsteroid(size, e.wave), 1))] :
           size \in AsteroidSizes }

spawnAsteroid(e) ==
  IF Len(e.asteroids) >= e.config.maxAsteroids \/ e.bossSystem.active
    THEN {e}
    ELSE { [e EXCEPT !.asteroids = Append(@, SpawnedAsteroid(size, e.wave)),
                     !.events = Append(@, Event("spawn", SpawnedAsteroid(size, e.wave), 1))] :
           size \in AsteroidSizes }

BossAsteroid(w) ==
  [ size |-> "huge",
    radius |-> (sizeMap("huge") * 3) \div 2,
    mass |-> massMap("huge"),
    health |-> (200 + w * 50) * 100,
    damage |-> BossDamage,
    isBoss |-> TRUE,
    scoreValue |-> BossScoreValue ]

spawnBoss(e) ==
  [e EXCEPT !.bossSystem.active = TRUE,
            !.asteroids = Append(@, BossAsteroid(e.wave)),
            !.events = Append(@, Event("boss", BossAsteroid(e.wave), 1))]

NewHazard == [timer |-> 0, telegraph |-> TRUE, telegraphTimer |-> 2000]

HazardDuration == 15000

spawnHazard(e) == [e EXCEPT !.hazards = Append(@, NewHazard)]

\* spawnPowerUp, type being the type drawn
spawnPowerUp(e, type) ==
  [e EXCEPT !.powerUps = Append(@, NewPowerUp(type)),
            !.events = Append(@, Event("drop", [size |-> type, isBoss |-> FALSE], 1))]

\* gameOver leaving the phase as it was
gameOverMissed(e) == e

gameOver(e) == [e EXCEPT !.state = "gameover"]

----------------------------------------------------------------------------
(* GameEngine.checkChainReaction *)

\* A pending callback: it will re-check with radius * 0.7 ^ depth
Timeout(radius, depth) == [radius |-> radius, depth |-> depth]

\* The for loop of checkChainReaction with the setTimeout outside of the
\* test of the kill: every asteroid within the radius schedules a callback
RECURSIVE chainLoopAlways(_, _, _, _)
chainLoopAlways(e, i, sure, next) ==
  IF i = 0
    THEN {e}
    ELSE
      LET a == asteroidTakeDamage(e.asteroids[i], ChainDamage)
          gain == floorMul(chainScoreMap(a.size), e.comboSystem.multiplier)
          killed(c) ==
            [e EXCEPT !.score = e.score + gain,
                      !.kills = e.kills + 1,
                      !.asteroids = RemoveAt(e.asteroids, i) \o split(a, c),
                      !.events = Append(e.events, Event("split", a, Len(split(a, c)))),
                      !.timeouts = Append(e.timeouts, next),
                      !.awards = Append(e.awards,
                         Award("chain", gain, a, e.comboSystem.multiplier))]
          within ==
            IF asteroidDestroyed(a)
              THEN UNION { chainLoopAlways(killed(c), i - 1, sure, next) : c \in splitCounts(a) }
              ELSE chainLoopAlways([e EXCEPT !.asteroids[i] = a,
                                             !.timeouts = Append(@, next)],
                                   i - 1, sure, next)
          outside == chainLoopAlways(e, i - 1, sure, next)
      IN  IF i >= sure THEN within ELSE within \cup outside

\* The for loop of checkChainReaction, from index i down.  The asteroids at
\* an index >= sure are within the radius (the fragments just pushed by the
\* caller); for every other one the distance test is an input.  next is the
\* callback that a kill schedules.
RECURSIVE chainLoop(_, _, _, _)
chainLoop(e, i, sure, next) ==
  IF i = 0
    THEN {e}
    ELSE
      LET a == asteroidTakeDamage(e.asteroids[i], ChainDamage)
          gain == floorMul(chainScoreMap(a.size), e.comboSystem.multiplier)
          killed(c) ==
            [e EXCEPT !.score = e.score + gain,
                      !.kills = e.kills + 1,
                      !.asteroids = RemoveAt(e.asteroids, i) \o split(a, c),
                      !.events = Append(e.events, Event("split", a, Len(split(a, c)))),
                      !.timeouts = Append(e.timeouts, next),
                      !.awards = Append(e.awards,
                         Award("chain", gain, a, e.comboSystem.multiplier))]
          within ==
            IF asteroidDestroyed(a)
              THEN UNION { chainLoop(killed(c), i - 1, sure, next) : c \in splitCounts(a) }
              ELSE chainLoop([e EXCEPT !.asteroids[i] = a], i - 1, sure, next)
          outside == chainLoop(e, i - 1, sure, next)
      IN  IF i >= sure THEN within ELSE within \cup outside

\* checkChainReaction(position, radius) called with fragments fresh fragments
\* at the end of the list
checkChainReaction(e, fragments, radius, depth) ==
  chainLoop(e, Len(e.asteroids), Len(e.asteroids) - fragments + 1,
            Timeout(radius, depth + 1))

----------------------------------------------------------------------------
(* GameEngine.update: the stages *)

\* One of the contacts of a frame has happened
contact(e) == [e EXCEPT !.contacts = @ - 1]

\* The asteroid loop: every asteroid passes, leaves the field below, or
\* touches the craft.
RECURSIVE asteroidLoop(_, _)
asteroidLoop(e, i) ==
  IF i = 0
    THEN {e}
    ELSE
      LET a == e.asteroids[i]
          off == [contact(e) EXCEPT !.asteroids = RemoveAt(e.asteroids, i),
                                    !.bossSystem.active = IF a.isBoss THEN FALSE ELSE @]
          amount == IF a.damage # 0 THEN a.damage ELSE DefaultCollisionDamage
          hit == takeDamage(e.player, amount)
          touched(c) ==
            LET e1 == [contact(e) EXCEPT
                         !.player = hit.ship,
                         !.asteroids = RemoveAt(e.asteroids, i) \o split(a, c),
                         !.events = e.events \o
                            << Event("ram", a, amount),
                               Event("split", a, Len(split(a, c))) >>]
            IN  IF hit.destroyed THEN {gameOver(e1)} ELSE asteroidLoop(e1, i - 1)
      IN  asteroidLoop(e, i - 1)
          \cup (IF e.contacts = 0
                  THEN {}
                  ELSE asteroidLoop(off, i - 1)
                       \cup UNION { touched(c) : c \in splitCounts(a) })

\* The power-ups a defeated boss leaves: three draws of the type, taken equal
bossPowerUps(e) ==
  { spawnPowerUp(spawnPowerUp(spawnPowerUp(e, t), t), t) : t \in PowerUpTypes }

\* The roll Math.random() < powerUpChance * multiplier of a kill: with
\* 0.15 * multiplier >= 1 the pickup is certain
powerUpRoll(e) ==
  (IF 15 * e.comboSystem.multiplier >= 1000 THEN {} ELSE {e})
  \cup { spawnPowerUp(e, t) : t \in PowerUpTypes }

\* A projectile has destroyed asteroids[j] (its health is already <= 0)
projectileKill(e, j) ==
  LET a == e.asteroids[j]
      e1 == increaseCombo(e)
      baseScore == IF a.isBoss THEN a.scoreValue ELSE killScoreMap(a.size)
      finalScore == floorMul(baseScore, e1.comboSystem.multiplier)
      e2 == [e1 EXCEPT !.score = e1.score + finalScore,
                       !.kills = e1.kills + 1,
                       !.awards = Append(e1.awards,
                          Award("kill", finalScore, a, e1.comboSystem.multiplier))]
      radius == (IF a.isBoss THEN (sizeMap(a.size) * 3) \div 2 ELSE sizeMap(a.size)) * 2
      removed(e3) == [e3 EXCEPT !.asteroids = RemoveAt(e3.asteroids, j)]
      bossCase(e3) ==
        UNION { checkChainReaction(removed(e4), 0, radius, 0) :
                e4 \in bossPowerUps([e3 EXCEPT !.bossSystem.active = FALSE]) }
      splitCase(e3) ==
        UNION { UNION { checkChainReaction(e5, c, radius, 0) :
                        e5 \in powerUpRoll([e3 EXCEPT
                                 !.asteroids = RemoveAt(e3.asteroids, j) \o split(a, c),
                                 !.events = Append(e3.events,
                                    Event("split", a, Len(split(a, c))))]) } :
                c \in splitCounts(a) }
  IN  UNION { IF a.isBoss THEN bossCase(e3) ELSE splitCase(e3) :
              e3 \in addExperience(e2, baseScore) }

\* The projectile loop without the splice of the projectile that hits: it
\* damages the asteroid and flies on
RECURSIVE projectileLoopFlyOn(_, _, _)
projectileLoopFlyOn(e, i, dt) ==
  IF i = 0
    THEN {e}
    ELSE
      LET pr == [e.projectiles[i] EXCEPT !.age = @ + dt]
          e1 == [e EXCEPT !.projectiles[i] = pr]
          gone == [e EXCEPT !.projectiles = RemoveAt(e.projectiles, i)]
          struck(j) ==
            LET a == asteroidTakeDamage(e1.asteroids[j], pr.damage)
                e2 == [contact(e1) EXCEPT !.asteroids[j] = a,
                                            !.events = Append(@, Event("hit", a, 1))]
            IN  IF asteroidDestroyed(a) THEN projectileKill(e2, j) ELSE {e2}
      IN  IF pr.age >= ProjectileLifetime
            THEN projectileLoopFlyOn(gone, i - 1, dt)
            ELSE projectileLoopFlyOn(e1, i - 1, dt)
                 \cup (IF e.contacts = 0
                         THEN {}
                         ELSE projectileLoopFlyOn(contact(gone), i - 1, dt)
                              \cup UNION { UNION { projectileLoopFlyOn(e3, i - 1, dt) :
                                                   e3 \in struck(j) } :
                                           j \in 1..Len(e.asteroids) })

\* The projectile loop: every projectile ages, then expires, leaves the
\* field, hits an asteroid (the first one the inner loop finds) or flies on
RECURSIVE projectileLoop(_, _, _)
projectileLoop(e, i, dt) ==
  IF i = 0
    THEN {e}
    ELSE
      LET pr == [e.projectiles[i] EXCEPT !.age = @ + dt]
          e1 == [e EXCEPT !.projectiles[i] = pr]
          gone == [e EXCEPT !.projectiles = RemoveAt(e.projectiles, i)]
          struck(j) ==
            LET a == asteroidTakeDamage(gone.asteroids[j], pr.damage)
                e2 == [contact(gone) EXCEPT !.asteroids[j] = a,
                                            !.events = Append(@, Event("hit", a, 1))]
            IN  IF asteroidDestroyed(a) THEN projectileKill(e2, j) ELSE {e2}
      IN  IF pr.age >= ProjectileLifetime
            THEN projectileLoop(gone, i - 1, dt)
            ELSE projectileLoop(e1, i - 1, dt)
                 \cup (IF e.contacts = 0
                         THEN {}
                         ELSE projectileLoop(contact(gone), i - 1, dt)
                              \cup UNION { UNION { projectileLoop(e3, i - 1, dt) :
                                                   e3 \in struck(j) } :
                                           j \in 1..Len(e.asteroids) })


\* collectPowerUp(powerUp)
collectPowerUp(e, pu) ==
  LET applied ==
        CASE pu.type = "health" -> {[e EXCEPT !.player = heal(@, 3000)]}
          [] pu.type = "shield" ->
               {[e EXCEPT !.player =
                   [activateShield([e.player EXCEPT !.shield.powerUpActive = TRUE,
                                                    !.shield.powerUpTimer = 10000])
                      EXCEPT !.shield.strength = e.player.shield.maxStrength]]}
          [] pu.type = "weapon" ->
               {[e EXCEPT !.weaponSystem =
                   [currentWeapon |-> w, activeWeaponTimer |-> Weapon(w).duration]] :
                w \in SpecialWeapons}
          [] pu.type = "speed" -> {[e EXCEPT !.config.maxSpeedX = @ + 1]}
      gain == floorMul(50, e.comboSystem.multiplier)
  IN  UNION { addExperience([e1 EXCEPT !.score = e1.score + gain,
                                        !.awards = Append(e1.awards,
                                           Award("pickup", gain, NoObstacle,
                                                 e.comboSystem.multiplier))], 50) :
              e1 \in applied }

\* The power-up loop without the splice of the pickup the craft collects: it
\* is marked as collected and stays
RECURSIVE powerUpLoopKeep(_, _, _)
powerUpLoopKeep(e, i, dt) ==
  IF i = 0
    THEN {e}
    ELSE
      LET pu == [e.powerUps[i] EXCEPT !.age = @ + dt]
          e1 == [e EXCEPT !.powerUps[i] = pu]
          gone == [e EXCEPT !.powerUps = RemoveAt(e.powerUps, i)]
          taken == [e1 EXCEPT !.powerUps[i].collected = TRUE]
      IN  IF pu.age >= PowerUpLifetime \/ pu.collected
            THEN powerUpLoopKeep(gone, i - 1, dt)
            ELSE powerUpLoopKeep(e1, i - 1, dt)
                 \cup (IF e.contacts = 0
                         THEN {}
                         ELSE powerUpLoopKeep(contact(gone), i - 1, dt)
                              \cup UNION { powerUpLoopKeep(e2, i - 1, dt) :
                                           e2 \in collectPowerUp(contact(taken), pu) })

\* The power-up loop: every pickup ages, then expires, leaves the field, is
\* collected by the craft or stays
RECURSIVE powerUpLoop(_, _, _)
powerUpLoop(e, i, dt) ==
  IF i = 0
    THEN {e}
    ELSE
      LET pu == [e.powerUps[i] EXCEPT !.age = @ + dt]
          e1 == [e EXCEPT !.powerUps[i] = pu]
          gone == [e EXCEPT !.powerUps = RemoveAt(e.powerUps, i)]
      IN  IF pu.age >= PowerUpLifetime \/ pu.collected
            THEN powerUpLoop(gone, i - 1, dt)
            ELSE powerUpLoop(e1, i - 1, dt)
                 \cup (IF e.contacts = 0
                         THEN {}
                         ELSE powerUpLoop(contact(gone), i - 1, dt)
                              \cup UNION { powerUpLoop(e2, i - 1, dt) :
                                           e2 \in collectPowerUp(contact(gone), pu) })

\* the combo timer of update
comboTimer(e, dt) ==
  IF e.comboSystem.count > 0
    THEN LET e1 == [e EXCEPT !.comboSystem.timer = @ + dt]
         IN  IF e1.comboSystem.timer >= ComboMaxTime THEN resetCombo(e1) ELSE e1
    ELSE e

\* the weapon timer of update without the return to the default weapon
weaponTimerNoRevert(e, dt) ==
  IF e.weaponSystem.currentWeapon # "default" /\ e.weaponSystem.activeWeaponTimer > 0
    THEN [e EXCEPT !.weaponSystem.activeWeaponTimer = @ - dt]
    ELSE e

\* the weapon timer of update
weaponTimer(e, dt) ==
  IF e.weaponSystem.currentWeapon # "default" /\ e.weaponSystem.activeWeaponTimer > 0
    THEN LET t == e.weaponSystem.activeWeaponTimer - dt
         IN  [e EXCEPT !.weaponSystem.activeWeaponTimer = t,
                       !.weaponSystem.currentWeapon = IF t <= 0 THEN "default" ELSE @]
    ELSE e

\* updateHazard for a black hole: the telegraph countdown (its pull acts on
\* velocities only)
updateHazard(h, dt) ==
  IF h.telegraph /\ h.telegraphTimer > 0
    THEN LET t == h.telegraphTimer - dt
         IN  [h EXCEPT !.telegraphTimer = t, !.telegraph = ~(t <= 0)]
    ELSE h

\* updateHazard applying the pull whatever the telegraph says
isActiveAlways(h) == TRUE

\* updateHazard: isActive, the telegraph phase is over
isActive(h) == ~h.telegraph \/ h.telegraphTimer <= 0

\* the pulls of the hazards hs on the asteroids and projectiles in their
\* range, as entries of the event history: each carries the hazard's timer
RECURSIVE pulls(_)
pulls(hs) ==
  IF hs = << >>
    THEN << >>
    ELSE pulls(SubSeq(hs, 1, Len(hs) - 1))
         \o (IF isActive(hs[Len(hs)])
               THEN << Event("pull", NoObstacle, hs[Len(hs)].timer) >>
               ELSE << >>)

\* the hazard loop of update
hazardStage(e, dt) ==
  LET aged == [k \in 1..Len(e.hazards) |-> [e.hazards[k] EXCEPT !.timer = @ + dt]]
      kept == SelectSeq(aged, LAMBDA h : h.timer < HazardDuration)
      updated == [k \in 1..Len(kept) |-> updateHazard(kept[k], dt)]
  IN  [e EXCEPT !.hazards = updated, !.events = @ \o pulls(updated)]

\* Natural numbers beyond the machine integers, as six digits in base 10000,
\* the least significant first: the number x
Limbs(x) == << x % 10000, (x \div 10000) % 10000, x \div 100000000, 0, 0, 0 >>

\* the digits of n * m + carry, for a small factor m
RECURSIVE mulLimbs(_, _, _)
mulLimbs(n, m, carry) ==
  IF n = << >>
    THEN << >>
    ELSE LET v == Head(n) * m + carry
         IN  << v % 10000 >> \o mulLimbs(Tail(n), m, v \div 10000)

\* the digits of x * b ^ k
RECURSIVE Power(_, _, _)
Power(x, b, k) == IF k = 0 THEN Limbs(x) ELSE mulLimbs(Power(x, b, k - 1), b, 0)

\* a >= b, comparing from digit i down
RECURSIVE geLimbs(_, _, _)
geLimbs(a, b, i) ==
  IF i = 0 THEN TRUE
  ELSE IF a[i] # b[i] THEN a[i] > b[i]
  ELSE geLimbs(a, b, i - 1)

\* timer >= config.asteroidSpawnRate, the rate being 2.0 s * 0.85 ^ k:
\* timer * 20 ^ k >= 2000 * 17 ^ k
spawnDue(timer, k) == geLimbs(Power(timer, 20, k), Power(2000, 17, k), 6)

\* the periodic spawner of update
spawnStage(e, dt) ==
  LET e1 == [e EXCEPT !.asteroidSpawnTimer = @ + dt]
  IN  IF spawnDue(e1.asteroidSpawnTimer, e1.config.asteroidSpawnRate)
        THEN spawnAsteroid([e1 EXCEPT !.asteroidSpawnTimer = 0])
        ELSE {e1}

\* the hazard spawner of update
hazardSpawnStage(e, dt) ==
  LET e1 == [e EXCEPT !.hazardSpawnTimer = @ + dt]
  IN  IF e1.hazardSpawnTimer >= HazardSpawnInterval /\ e1.wave > 2
        THEN spawnHazard([e1 EXCEPT !.hazardSpawnTimer = 0])
        ELSE e1

\* the wave progression with the capacity left as it is
waveStageSameCapacity(e, dt) ==
  LET e1 == [e EXCEPT !.waveTimer = @ + dt]
  IN  IF e1.waveTimer >= WaveInterval
        THEN LET e2 == [e1 EXCEPT !.waveTimer = 0,
                                  !.wave = @ + 1,
                                  !.config.asteroidSpawnRate = @ + 1,
                                  !.config.difficultyMultiplier = @ + 1]
             IN  IF e2.wave % BossWaveInterval = 0 THEN spawnBoss(e2) ELSE e2
        ELSE e1

\* the wave progression of update
waveStage(e, dt) ==
  LET e1 == [e EXCEPT !.waveTimer = @ + dt]
  IN  IF e1.waveTimer >= WaveInterval
        THEN LET e2 == [e1 EXCEPT !.waveTimer = 0,
                                  !.wave = @ + 1,
                                  !.config.asteroidSpawnRate = @ + 1,
                                  !.config.maxAsteroids = @ + 2,
                                  !.config.difficultyMultiplier = @ + 1]
             IN  IF e2.wave % BossWaveInterval = 0 THEN spawnBoss(e2) ELSE e2
        ELSE e1

\* update from the combo timer to the wave progression
timerStages(e, dt) ==
  { waveStage(hazardSpawnStage(e1, dt), dt) :
    e1 \in spawnStage(hazardStage(weaponTimer(comboTimer(e, dt), dt), dt), dt) }

\* update keeping the craft from the right edge only
keepInBoundsRightOnly(p) ==
  IF p.x > (Width - LaneMargin) * 1000
    THEN [p EXCEPT !.x = (Width - LaneMargin) * 1000, !.vx = 0]
    ELSE p

\* update: keep the player in bounds, horizontally, in lane-shooter mode
keepInBounds(p) ==
  LET p1 == IF p.x < LaneMargin * 1000
              THEN [p EXCEPT !.x = LaneMargin * 1000, !.vx = 0]
              ELSE p
  IN  IF p1.x > (Width - LaneMargin) * 1000
        THEN [p1 EXCEPT !.x = (Width - LaneMargin) * 1000, !.vx = 0]
        ELSE p1

\* the frame time taken as the host passes it
clampNothing(deltaTime) == deltaTime

\* deltaTime = Math.min(deltaTime, 0.1)
clampDeltaTime(deltaTime) == Min(deltaTime, MaxDeltaTime)

\* update(deltaTime) with the timers, the spawners and the wave progression
\* run before the loops over asteroids, projectiles and power-ups
frameTimersFirst(e, deltaTime) ==
  LET dt == clampDeltaTime(deltaTime)
      e1 == handleInput([e EXCEPT !.time = @ + dt], dt)
      e2 == [e1 EXCEPT !.player = keepInBounds(shipUpdate(@, dt))]
      rest(e3) ==
        IF e3.state = "gameover"
          THEN {e3}
          ELSE UNION { powerUpLoop(e4, Len(e4.powerUps), dt) :
                       e4 \in projectileLoop(e3, Len(e3.projectiles), dt) }
  IN  IF isDestroyed(e2.player)
        THEN {gameOver(e2)}
        ELSE UNION { UNION { rest(e3) : e3 \in asteroidLoop(e0, Len(e0.asteroids)) } :
                     e0 \in timerStages(e2, dt) }

\* update(deltaTime) past its phase check: the set of its possible outcomes
frame(e, deltaTime) ==
  LET dt == clampDeltaTime(deltaTime)
      e1 == handleInput([e EXCEPT !.time = @ + dt], dt)
      e2 == [e1 EXCEPT !.player = keepInBounds(shipUpdate(@, dt))]
      rest(e3) ==
        IF e3.state = "gameover"
          THEN {e3}
          ELSE UNION { UNION { timerStages(e5, dt) :
                               e5 \in powerUpLoop(e4, Len(e4.powerUps), dt) } :
                       e4 \in projectileLoop(e3, Len(e3.projectiles), dt) }
  IN  IF isDestroyed(e2.player)
        THEN {gameOver(e2)}
        ELSE UNION { rest(e3) : e3 \in asteroidLoop(e2, Len(e2.asteroids)) }

\* update(deltaTime) without its phase check
updateAnyPhase(e, deltaTime) == frame(e, deltaTime)

\* update(deltaTime): nothing unless the phase is playing
update(e, deltaTime) ==
  IF e.state # "playing" THEN {e} ELSE frame(e, deltaTime)

----------------------------------------------------------------------------
(* GameEngine: construction and the session calls *)

\* storage.getCurrentUser() of a visitor who is not logged in
NoUser == "guest"

\* The page's game object as its constructor leaves it for the user u: no
\* game-over handling has run and saveScore has not been called
NewGame(u) == [user |-> u, gameOvers |-> 0, saveScore |-> << >>]

\* The storage as the StorageManager constructor leaves it over an empty
\* localStorage: no users, no scores
NewStorage == [users |-> << >>, scores |-> << >>]

\* The engine as the constructor leaves it.  config.asteroidSpawnRate is the
\* number k of factors 0.85 applied to 2.0 s, config.difficultyMultiplier is
\* in tenths, config.maxSpeedX is the number of factors 1.2 applied to 450.
Constructed ==
  [ state |-> "menu",
    score |-> 0,
    wave |-> 1,
    kills |-> 0,
    time |-> 0,
    player |-> NewSpaceship,
    asteroids |-> << >>,
    projectiles |-> << >>,
    powerUps |-> << >>,
    hazards |-> << >>,
    comboSystem |-> [count |-> 0, timer |-> 0, multiplier |-> 10],
    bossSystem |-> [active |-> FALSE],
    weaponSystem |-> [currentWeapon |-> "default", activeWeaponTimer |-> 0],
    upgradeSystem |-> [ level |-> 1, experience |-> 0, experienceToNext |-> 100,
                        skillPoints |-> 0,
                        upgrades |-> [u \in Upgrades |-> 0] ],
    config |-> [ asteroidSpawnRate |-> 0, maxAsteroids |-> StartMaxAsteroids,
                 difficultyMultiplier |-> 10, maxSpeedX |-> 0 ],
    asteroidSpawnTimer |-> 0,
    hazardSpawnTimer |-> 0,
    waveTimer |-> 0,
    keys |-> {},
    timeouts |-> << >>,
    game |-> NewGame(NoUser),
    storage |-> NewStorage,
    saved |-> << >>,
    bodies |-> << >>,
    particles |-> << >>,
    sinceHit |-> -1,
    awards |-> << >>,
    events |-> << >>,
    contacts |-> MaxContacts ]

\* start() as a change of phase only
startWithoutReset(e) == [e EXCEPT !.state = "playing"]

\* start()
start(e) ==
  [e EXCEPT !.state = "playing",
            !.score = 0,
            !.wave = 1,
            !.kills = 0,
            !.time = 0,
            !.asteroids = << >>,
            !.projectiles = << >>,
            !.powerUps = << >>,
            !.hazards = << >>,
            !.config.asteroidSpawnRate = 0,
            !.config.maxAsteroids = StartMaxAsteroids,
            !.config.difficultyMultiplier = 10,
            !.comboSystem = [count |-> 0, timer |-> 0, multiplier |-> 10],
            !.bossSystem = [active |-> FALSE],
            !.weaponSystem = [currentWeapon |-> "default", activeWeaponTimer |-> 0],
            !.upgradeSystem.level = 1,
            !.upgradeSystem.experience = 0,
            !.upgradeSystem.experienceToNext = 100,
            !.player = NewSpaceship]

\* pause() without its phase check
pauseAnyPhase(e) == [e EXCEPT !.state = "paused"]

\* pause()
pause(e) == IF e.state = "playing" THEN [e EXCEPT !.state = "paused"] ELSE e

\* resume() without its phase check
resumeAnyPhase(e) == [e EXCEPT !.state = "playing"]

\* resume()
resume(e) == IF e.state = "paused" THEN [e EXCEPT !.state = "playing"] ELSE e

----------------------------------------------------------------------------
(* States of a run in progress.  The first asteroid of a run appears after  *)
(* 2.0 s, the first boss after 120 s and a capped combo after 70 kills, so  *)
(* the exploration starts from the constructed engine and from the states   *)
(* below, each of which a run reaches by the play described with it.        *)

\* an asteroid after n hits of the default weapon that it survived
Hit(a, n) ==
  [a EXCEPT !.health = a.health - n * Weapon("default").damage,
            !.damage = Min(MaxDamage, a.damage + n * Weapon("default").damage)]

\* a shot of the default weapon fired two frames of 0.1 s ago
InFlight == [damage |-> Weapon("default").damage, age |-> 200]

\* the black hole present from wave 3 on, t ms after it appeared
OldHazard(t) == [timer |-> t, telegraph |-> FALSE, telegraphTimer |-> 0]

\* 20 s into a run without kills: the craft was rammed by two huge asteroids
\* and a small one (35 + 35 + 10 points); of the asteroids in the field one
\* medium has survived three shots; a fourth shot is in flight.
SceneField ==
  [start(Constructed) EXCEPT
     !.time = 20000,
     !.waveTimer = 20000,
     !.hazardSpawnTimer = 20000,
     !.player.health = 2000,
     !.asteroids = << Hit(SpawnedAsteroid("medium", 1), 3),
                      SpawnedAsteroid("medium", 1) >>,
     !.projectiles = << InFlight >>]

\* the score after a streak of c projectile kills of huge asteroids
RECURSIVE StreakScore(_)
StreakScore(c) ==
  IF c = 0
    THEN 0
    ELSE StreakScore(c - 1) + floorMul(killScoreMap("huge"), Min(10 + c, MaxMultiplier))

\* A streak of c kills of huge asteroids in wave 1, the last one 2.9 s ago;
\* a small asteroid has survived one shot and a second shot is in flight.
SceneCombo(c) ==
  [start(Constructed) EXCEPT
     !.time = 25000,
     !.waveTimer = 25000,
     !.hazardSpawnTimer = 25000,
     !.asteroidSpawnTimer = 1000,
     !.score = StreakScore(c),
     !.kills = c,
     !.upgradeSystem.experience = c * killScoreMap("huge"),
     !.comboSystem = [count |-> c, timer |-> 2900, multiplier |-> Min(10 + c, MaxMultiplier)],
     !.asteroids = << Hit(SpawnedAsteroid("small", 1), 1) >>,
     !.projectiles = << InFlight >>]

\* The same in wave 5 after the boss has left the field, for the long
\* streaks: c kills in 145 s.
SceneLongCombo(c) ==
  [start(Constructed) EXCEPT
     !.time = 145000,
     !.wave = 5,
     !.waveTimer = 25000,
     !.hazardSpawnTimer = 9900,
     !.asteroidSpawnTimer = 500,
     !.hazards = << OldHazard(9800) >>,
     !.config.asteroidSpawnRate = 4,
     !.config.maxAsteroids = StartMaxAsteroids + 8,
     !.config.difficultyMultiplier = 14,
     !.score = StreakScore(c),
     !.kills = c,
     !.upgradeSystem.experience = c * killScoreMap("huge"),
     !.comboSystem = [count |-> c, timer |-> 2900, multiplier |-> Min(10 + c, MaxMultiplier)],
     !.asteroids = << Hit(SpawnedAsteroid("small", 5), 2) >>,
     !.projectiles = << InFlight >>]

\* 10 s into the boss fight of wave 5 in a run without kills: the boss has
\* taken 43 shots, a small asteroid spawned in wave 4 has taken two, another
\* shot is in flight.
SceneBoss ==
  [start(Constructed) EXCEPT
     !.time = 130000,
     !.wave = 5,
     !.waveTimer = 10000,
     !.hazardSpawnTimer = 9900,
     !.asteroidSpawnTimer = 500,
     !.hazards = << OldHazard(9800) >>,
     !.config.asteroidSpawnRate = 4,
     !.config.maxAsteroids = StartMaxAsteroids + 8,
     !.config.difficultyMultiplier = 14,
     !.bossSystem = [active |-> TRUE],
     !.asteroids = << Hit(SpawnedAsteroid("small", 4), 2), Hit(BossAsteroid(5), 43) >>,
     !.projectiles = << InFlight >>]

\* The last frames of wave w in a run without kills (the boss of wave 5 has
\* left the field of a low canvas): a large asteroid is in the field
SceneWaveEnd(w) ==
  [start(Constructed) EXCEPT
     !.time = w * WaveInterval - 50,
     !.wave = w,
     !.waveTimer = WaveInterval - 50,
     !.hazardSpawnTimer = 9900,
     !.asteroidSpawnTimer = 800,
     !.hazards = << OldHazard(9800) >>,
     !.config.asteroidSpawnRate = w - 1,
     !.config.maxAsteroids = StartMaxAsteroids + 2 * (w - 1),
     !.config.difficultyMultiplier = 10 + (w - 1),
     !.asteroids = << SpawnedAsteroid("large", w) >>]

\* 20 s into wave 10 of a run without kills on a canvas of 640 px or more in
\* height.  The boss of wave 5 enters at y = -100 with 50 px/s and
\* PhysicsBody.update damps its velocity by 0.999 ^ (60 dt): it comes to rest
\* near y = 733 and never passes height + 100, so it is still in the field,
\* untouched, when the boss of wave 10 appears.  That one has taken 69 shots
\* and the next one will destroy it.
SceneTwoBosses ==
  [start(Constructed) EXCEPT
     !.time = 9 * WaveInterval + 20000,
     !.wave = 10,
     !.waveTimer = 20000,
     !.hazardSpawnTimer = 9900,
     !.asteroidSpawnTimer = 400,
     !.hazards = << OldHazard(9800) >>,
     !.config.asteroidSpawnRate = 9,
     !.config.maxAsteroids = StartMaxAsteroids + 18,
     !.config.difficultyMultiplier = 19,
     !.bossSystem = [active |-> TRUE],
     !.asteroids = << BossAsteroid(5), Hit(BossAsteroid(10), 69) >>]

\* 20 s into a run without kills in which a weapon pickup, collected 5 s ago,
\* armed the missiles: a homing missile fired 2.95 s ago is still circling in
\* the field, a second one was fired 0.4 s ago.
SceneOldShot ==
  [start(Constructed) EXCEPT
     !.time = 20000,
     !.waveTimer = 20000,
     !.hazardSpawnTimer = 20000,
     !.score = 50,
     !.upgradeSystem.experience = 50,
     !.weaponSystem = [currentWeapon |-> "missile",
                       activeWeaponTimer |-> Weapon("missile").duration - 5000],
     !.player.weapons.fireRate = Weapon("missile").fireRate,
     !.player.weapons.cooldown = 100000,
     !.asteroids = << SpawnedAsteroid("medium", 1) >>,
     !.projectiles = << [damage |-> Weapon("missile").damage, age |-> 2950],
                        [damage |-> Weapon("missile").damage, age |-> 400] >>]

\* 20 s into a run with two kills of small asteroids by shots, 9.95 s and 4 s
\* ago, each of which has left a pickup: a weapon pickup and one of type t.
\* The streaks of one kill have ended without a bonus.
ScenePickups(t) ==
  [start(Constructed) EXCEPT
     !.time = 20000,
     !.waveTimer = 20000,
     !.hazardSpawnTimer = 20000,
     !.score = 2 * floorMul(killScoreMap("small"), 11),
     !.kills = 2,
     !.upgradeSystem.experience = 2 * killScoreMap("small"),
     !.asteroids = << SpawnedAsteroid("medium", 1) >>,
     !.powerUps = << [NewPowerUp("weapon") EXCEPT !.age = 9950],
                     [NewPowerUp(t) EXCEPT !.age = 4000] >>]

\* 25 s into a run with two kills of small asteroids by shots, at 9 s and at
\* 21 s, each of which has left a weapon pickup: the first one, collected at
\* 10.08 s, armed the laser, which has 0.08 s left; the second one is still in
\* the field.
SceneWeaponEnd ==
  [ScenePickups("weapon") EXCEPT
     !.time = 25000,
     !.waveTimer = 25000,
     !.hazardSpawnTimer = 25000,
     !.score = @ + 50,
     !.upgradeSystem.experience = @ + 50,
     !.weaponSystem = [currentWeapon |-> "laser", activeWeaponTimer |-> 80],
     !.powerUps = << [NewPowerUp("weapon") EXCEPT !.age = 4000] >>]

\* The field of SceneField with a small asteroid next to the medium one the
\* shot in flight will destroy.
SceneRocks ==
  [SceneField EXCEPT
     !.asteroids = << Hit(SpawnedAsteroid("medium", 1), 3),
                      SpawnedAsteroid("medium", 1),
                      SpawnedAsteroid("small", 1) >>]

\* Wave 3 of a run without kills, t ms after the frame at 60.1 s in which
\* the first black hole appeared: it is still in the field; a medium asteroid
\* has survived four shots and a fifth shot is in flight.
SceneHazard(t) ==
  [start(Constructed) EXCEPT
     !.time = 2 * WaveInterval + 100 + t,
     !.wave = 3,
     !.waveTimer = 100 + t,
     !.hazardSpawnTimer = t,
     !.asteroidSpawnTimer = 300,
     !.hazards = << [timer |-> t, telegraph |-> t < NewHazard.telegraphTimer,
                     telegraphTimer |-> Max(0, NewHazard.telegraphTimer - t)] >>,
     !.config.asteroidSpawnRate = 2,
     !.config.maxAsteroids = StartMaxAsteroids + 4,
     !.config.difficultyMultiplier = 12,
     !.asteroids = << Hit(SpawnedAsteroid("medium", 3), 4) >>,
     !.projectiles = << InFlight >>]

\* the age of the black hole just before its telegraph ends and just before
\* its duration does
HazardAges == {1900, 14900}

\* 25 s into wave 2 of a run without kills: n large asteroids of the waves 1
\* and 2 are in the field, none near the craft, and the spawner is 0.1 s from
\* its next turn.
SceneCrowd(n) ==
  [start(Constructed) EXCEPT
     !.time = WaveInterval + 25000,
     !.wave = 2,
     !.waveTimer = 25000,
     !.hazardSpawnTimer = WaveInterval + 25000,
     !.asteroidSpawnTimer = 1600,
     !.config.asteroidSpawnRate = 1,
     !.config.maxAsteroids = StartMaxAsteroids + 2,
     !.config.difficultyMultiplier = 11,
     !.asteroids = [k \in 1..n |-> SpawnedAsteroid("large", 1 + (k % 2))]]

\* one asteroid short of the capacity of wave 2, at it, and beyond it by the
\* fragments of a split
Crowds == {StartMaxAsteroids + 1, StartMaxAsteroids + 2, StartMaxAsteroids + 3}

WaveEnds == {4, 5}

ShortStreaks == {9, 10}

LongStreaks == {70}

Scenes ==
  {SceneField, SceneBoss, SceneTwoBosses}
  \cup {SceneWaveEnd(w) : w \in WaveEnds}
  \cup {SceneCombo(c) : c \in ShortStreaks}
  \cup {SceneLongCombo(c) : c \in LongStreaks}

----------------------------------------------------------------------------
(* The state machine *)

\* The engine record of the current state; the award history starts empty
\* with every call, and so does the count of contacts
Eng ==
  [ state |-> state, score |-> score, wave |-> wave, kills |-> kills,
    time |-> time, player |-> player, asteroids |-> asteroids,
    projectiles |-> projectiles, powerUps |-> powerUps, hazards |-> hazards,
    comboSystem |-> comboSystem, bossSystem |-> bossSystem,
    weaponSystem |-> weaponSystem, upgradeSystem |-> upgradeSystem,
    config |-> config, asteroidSpawnTimer |-> asteroidSpawnTimer,
    hazardSpawnTimer |-> hazardSpawnTimer, waveTimer |-> waveTimer,
    keys |-> keys, timeouts |-> timeouts, game |-> game,
    storage |-> storage, saved |-> saved, bodies |-> bodies, particles |-> particles,
    sinceHit |-> sinceHit, awards |-> << >>,
    events |-> << >>, contacts |-> MaxContacts ]

\* The next state is the engine record r
Commit(r) ==
  /\ state' = r.state
  /\ score' = r.score
  /\ wave' = r.wave
  /\ kills' = r.kills
  /\ time' = r.time
  /\ player' = r.player
  /\ asteroids' = r.asteroids
  /\ projectiles' = r.projectiles
  /\ powerUps' = r.powerUps
  /\ hazards' = r.hazards
  /\ comboSystem' = r.comboSystem
  /\ bossSystem' = r.bossSystem
  /\ weaponSystem' = r.weaponSystem
  /\ upgradeSystem' = r.upgradeSystem
  /\ config' = r.config
  /\ asteroidSpawnTimer' = r.asteroidSpawnTimer
  /\ hazardSpawnTimer' = r.hazardSpawnTimer
  /\ waveTimer' = r.waveTimer
  /\ keys' = r.keys
  /\ timeouts' = r.timeouts
  /\ game' = r.game
  /\ storage' = r.storage
  /\ saved' = r.saved
  /\ bodies' = r.bodies
  /\ particles' = r.particles
  /\ sinceHit' = r.sinceHit
  /\ awards' = r.awards
  /\ events' = r.events

\* The outcomes the exploration follows
Bounded(r) ==
  /\ Len(r.asteroids) <= MaxLive
  /\ Len(r.projectiles) <= MaxProjectiles
  /\ Len(r.powerUps) <= MaxPowerUps
  /\ Len(r.timeouts) <= MaxTimeouts

\* The history of a call: its name, its argument and the value it returned
Returned(op, arg, ret) == [op |-> op, arg |-> arg, ret |-> ret]

Called(op, arg) == Returned(op, arg, FALSE)

\* one more call or event, within the explored depth
Step == steps < MaxSteps /\ steps' = steps + 1

\* the frame times the host passes to update (ms); the last exceeds the clamp
DtSet == {50, 250}

\* The current state is the engine record r
Is(r) ==
  /\ state = r.state
  /\ score = r.score
  /\ wave = r.wave
  /\ kills = r.kills
  /\ time = r.time
  /\ player = r.player
  /\ asteroids = r.asteroids
  /\ projectiles = r.projectiles
  /\ powerUps = r.powerUps
  /\ hazards = r.hazards
  /\ comboSystem = r.comboSystem
  /\ bossSystem = r.bossSystem
  /\ weaponSystem = r.weaponSystem
  /\ upgradeSystem = r.upgradeSystem
  /\ config = r.config
  /\ asteroidSpawnTimer = r.asteroidSpawnTimer
  /\ hazardSpawnTimer = r.hazardSpawnTimer
  /\ waveTimer = r.waveTimer
  /\ keys = r.keys
  /\ timeouts = r.timeouts
  /\ game = r.game
  /\ storage = r.storage
  /\ saved = r.saved
  /\ bodies = r.bodies
  /\ particles = r.particles
  /\ sinceHit = r.sinceHit
  /\ awards = r.awards
  /\ events = r.events

Init ==
  /\ \E r \in {Constructed} \cup Scenes : Is(r)
  /\ call = Called("new", 0)
  /\ steps = 0

Start ==
  /\ Step
  /\ Commit(start(Eng))
  /\ call' = Called("start", 0)

Pause ==
  /\ Step
  /\ Commit(pause(Eng))
  /\ call' = Called("pause", 0)

Resume ==
  /\ Step
  /\ Commit(resume(Eng))
  /\ call' = Called("resume", 0)

\* the host's frame callback calls update(deltaTime)
Update(dt) ==
  /\ Step
  /\ \E r \in {x \in update(Eng, dt) : Bounded(x)} : Commit(r)
  /\ call' = Called("update", dt)

\* The callback that checkChainReaction left with setTimeout runs: it calls
\* checkChainReaction(asteroid.position, radius * 0.7)
ChainCallback ==
  /\ Step
  /\ timeouts # << >>
  /\ LET t == Head(timeouts)
         e == [Eng EXCEPT !.timeouts = Tail(timeouts)]
     IN  \E r \in {x \in checkChainReaction(e, 0, t.radius, t.depth) : Bounded(x)} :
           Commit(r)
  /\ call' = Called("timeout", 0)

Keys == {" ", "shift"}

\* the keydown listener
KeyDown(k) ==
  /\ Step
  /\ k \notin keys
  /\ Commit([Eng EXCEPT !.keys = keys \cup {k}])
  /\ call' = Called("keydown", k)

\* the keyup listener
KeyUp(k) ==
  /\ Step
  /\ k \in keys
  /\ Commit([Eng EXCEPT !.keys = keys \ {k}])
  /\ call' = Called("keyup", k)

\* the mousedown listener: it fires at once in phase playing
MouseDown ==
  /\ Step
  /\ "mouse" \notin keys
  /\ LET e == [Eng EXCEPT !.keys = keys \cup {"mouse"}]
         r == IF e.state = "playing" THEN playerFire(e) ELSE e
     IN  Bounded(r) /\ Commit(r)
  /\ call' = Called("mousedown", 0)

\* the mouseup listener
MouseUp ==
  /\ Step
  /\ "mouse" \in keys
  /\ Commit([Eng EXCEPT !.keys = keys \ {"mouse"}])
  /\ call' = Called("mouseup", 0)

Next ==
  \/ Start
  \/ Pause
  \/ Resume
  \/ \E dt \in DtSet : Update(dt)
  \/ ChainCallback
  \/ \E k \in Keys : KeyDown(k)
  \/ \E k \in Keys : KeyUp(k)
  \/ MouseDown
  \/ MouseUp

Spec == Init /\ [][Next]_vars

----------------------------------------------------------------------------
(* The shots: the engine with shots of different ages in flight *)

InitShots ==
  /\ \E r \in {SceneField, SceneOldShot} : Is(r)
  /\ call = Called("new", 0)
  /\ steps = 0

SpecShots == InitShots /\ [][Next]_vars

----------------------------------------------------------------------------
(* The pickups: the engine with pickups of different ages in the field *)

InitPickups ==
  /\ \E r \in {SceneField, SceneWeaponEnd} \cup {ScenePickups(t) : t \in PowerUpTypes} :
       Is(r)
  /\ call = Called("new", 0)
  /\ steps = 0

SpecPickups == InitPickups /\ [][Next]_vars

----------------------------------------------------------------------------
(* The levels: addExperience called on a run that has just started, and the *)
(* shots fired between the calls                                            *)

\* the experience, in tenths of a point, of the kill of a huge asteroid, of a
\* pickup, of the kill of a boss, and an amount worth three levels
Experiences == {10, 50, BossScoreValue, 5000}

InitLevels ==
  /\ Is(start(Constructed))
  /\ call = Called("new", 0)
  /\ steps = 0

AddExperience(amount) ==
  /\ Step
  /\ \E r \in {x \in addExperience(Eng, amount) : Bounded(x)} : Commit(r)
  /\ call' = Called("addExperience", amount)

NextLevels ==
  \/ \E amount \in Experiences : AddExperience(amount)
  \/ MouseDown
  \/ MouseUp

SpecLevels == InitLevels /\ [][NextLevels]_vars

----------------------------------------------------------------------------
(* The chain reaction: the callbacks that a frame with a kill has left run, *)
(* as many as are scheduled, and nothing else does.  The timers of the      *)
(* browser run every callback that is pending.                              *)

\* the outcomes of the frame in which the shot in flight destroys an asteroid
\* that leaves no pickup
AfterKill == {r \in update(SceneRocks, 50) : r.timeouts # << >> /\ r.powerUps = << >>}

InitChain ==
  /\ \E r \in AfterKill : Is(r)
  /\ call = Called("update", 50)
  /\ steps = 1

\* the callback of setTimeout: checkChainReaction(asteroid.position, radius * 0.7)
ChainCallbackRuns ==
  /\ timeouts # << >>
  /\ LET t == Head(timeouts)
         e == [Eng EXCEPT !.timeouts = Tail(timeouts)]
     IN  \E r \in checkChainReaction(e, 0, t.radius, t.depth) : Commit(r)
  /\ call' = Called("timeout", 0)
  /\ steps' = steps + 1

NextChain == ChainCallbackRuns

\* The step of the timers of the browser: while a callback is pending, one
\* runs.  A step of NextChain is this step, and ChainCallbackRuns is enabled
\* whenever a callback is pending.
TimerFires == timeouts # << >> /\ steps' = steps + 1

SpecChain == InitChain /\ [][NextChain]_vars /\ WF_steps(TimerFires)

----------------------------------------------------------------------------
(* The hazards: the engine with a black hole about to act or to expire *)

InitHazards ==
  /\ \E t \in HazardAges : Is(SceneHazard(t))
  /\ call = Called("new", 0)
  /\ steps = 0

SpecHazards == InitHazards /\ [][Next]_vars

----------------------------------------------------------------------------
(* The crowded field: the engine with as many asteroids as the capacity     *)
(* allows, in frames in which nothing touches anything                      *)

InitCrowd ==
  /\ \E r \in {SceneField} \cup {SceneCrowd(n) : n \in Crowds} : Is(r)
  /\ call = Called("new", 0)
  /\ steps = 0

\* update(deltaTime) in a frame without a contact
UpdateApart(dt) ==
  /\ Step
  /\ \E r \in update([Eng EXCEPT !.contacts = 0], dt) : Commit(r)
  /\ call' = Called("update", dt)

NextCrowd ==
  \/ \E dt \in DtSet : UpdateApart(dt)
  \/ Start
  \/ Pause
  \/ Resume

SpecCrowd == InitCrowd /\ [][NextCrowd]_vars

----------------------------------------------------------------------------
(* The craft on its own: the methods of Spaceship called in any order *)

\* the engine around the craft
surroundings ==
  <<state, score, wave, kills, time, asteroids, projectiles, powerUps, hazards,
    comboSystem, bossSystem, weaponSystem, upgradeSystem, config,
    asteroidSpawnTimer, hazardSpawnTimer, waveTimer, keys, timeouts, game,
    storage, saved, bodies, particles, awards, events>>

\* A new craft; a craft rammed by a huge asteroid 0.9 s ago; a craft that has
\* held its shield up for 3.2 s
ShipStates ==
  { NewSpaceship,
    [NewSpaceship EXCEPT !.health = PlayerHealth - SpawnedAsteroid("huge", 1).damage,
                         !.invulnerable = TRUE,
                         !.invulnerabilityTimer = InvulnerabilityTime - 900],
    [NewSpaceship EXCEPT !.shield.active = TRUE,
                         !.shield.strength = ShieldMaxStrength - ShieldDepletionRate * 3200] }

\* the damage of a hit: less than the shield of ShipStates holds, that of a
\* medium asteroid, that of the boss, more than the craft's health
Amounts == {300, 1750, 4000, 12000}

InitShip ==
  /\ \E p \in ShipStates :
       Is([Constructed EXCEPT
             !.player = p,
             !.sinceHit = IF p.invulnerable
                            THEN InvulnerabilityTime - p.invulnerabilityTimer
                            ELSE -1])
  /\ call = Called("new", 0)
  /\ steps = 0

TakeDamage(amount) ==
  /\ Step
  /\ LET r == takeDamage(player, amount)
     IN  /\ player' = r.ship
         /\ call' = Returned("takeDamage", amount, r.destroyed)
         /\ sinceHit' = IF r.ship.health < player.health THEN 0 ELSE sinceHit
  /\ UNCHANGED surroundings

ActivateShield ==
  /\ Step
  /\ player' = activateShield(player)
  /\ call' = Called("activateShield", 0)
  /\ UNCHANGED <<surroundings, sinceHit>>

DeactivateShield ==
  /\ Step
  /\ player' = deactivateShield(player)
  /\ call' = Called("deactivateShield", 0)
  /\ UNCHANGED <<surroundings, sinceHit>>

ShipUpdate(dt) ==
  /\ Step
  /\ player' = shipUpdate(player, Min(dt, MaxDeltaTime))
  /\ call' = Called("shipUpdate", dt)
  /\ sinceHit' = IF sinceHit >= 0 THEN sinceHit + Min(dt, MaxDeltaTime) ELSE sinceHit
  /\ UNCHANGED surroundings

Heal(amount) ==
  /\ Step
  /\ player' = heal(player, amount)
  /\ call' = Called("heal", amount)
  /\ UNCHANGED <<surroundings, sinceHit>>

NextShip ==
  \/ \E amount \in Amounts : TakeDamage(amount)
  \/ ActivateShield
  \/ DeactivateShield
  \/ \E dt \in DtSet : ShipUpdate(dt)
  \/ Heal(3000)

SpecShip == InitShip /\ [][NextShip]_vars

----------------------------------------------------------------------------
(* An asteroid on its own: takeDamage and split called in any order on the  *)
(* asteroids of a list; the fragments split returns are appended to it      *)

\* the engine around the asteroids
aroundAsteroids ==
  <<state, score, wave, kills, time, player, projectiles, powerUps, hazards,
    comboSystem, bossSystem, weaponSystem, upgradeSystem, config,
    asteroidSpawnTimer, hazardSpawnTimer, waveTimer, keys, timeouts, game,
    storage, saved, bodies, particles, sinceHit, awards, events>>

\* Asteroids as the engine makes them: fresh fragments, asteroids spawned in
\* waves 1 and 5, one of them after two hits, and the boss of wave 5
AsteroidInputs ==
  {NewAsteroid(size) : size \in AsteroidSizes}
  \cup {SpawnedAsteroid(size, w) : size \in AsteroidSizes, w \in {1, 5}}
  \cup {Hit(SpawnedAsteroid(size, 5), 2) : size \in AsteroidSizes}
  \cup {BossAsteroid(5)}

InitSplit ==
  /\ \E a \in AsteroidInputs : Is([Constructed EXCEPT !.asteroids = <<a>>])
  /\ call = Called("new", 0)
  /\ steps = 0

\* asteroids[i].split()
SplitAsteroid(i) ==
  /\ Step
  /\ \E c \in splitCounts(asteroids[i]) :
       LET r == splitCall(asteroids[i], c)
       IN  /\ asteroids' = [asteroids EXCEPT ![i] = r.self] \o r.fragments
           /\ call' = Returned("split", i, Len(r.fragments))
  /\ UNCHANGED aroundAsteroids

\* asteroids[i].takeDamage(amount)
AsteroidTakeDamage(i, amount) ==
  /\ Step
  /\ LET a == asteroidTakeDamage(asteroids[i], amount)
     IN  /\ asteroids' = [asteroids EXCEPT ![i] = a]
         /\ call' = Returned("asteroidTakeDamage", i, asteroidDestroyed(a))
  /\ UNCHANGED aroundAsteroids

NextSplit ==
  \/ \E i \in DOMAIN asteroids : SplitAsteroid(i)
  \/ \E i \in DOMAIN asteroids : AsteroidTakeDamage(i, ChainDamage)

SpecSplit == InitSplit /\ [][NextSplit]_vars

----------------------------------------------------------------------------
(* The craft in its lane: the engine driven by the direction keys *)

\* 1.5 s into a run, before the first asteroid: the craft at x (thousandths
\* of a pixel) with the velocity vx, the keys held being down
LaneScene(x, vx, held) ==
  [start(Constructed) EXCEPT
     !.time = 1500,
     !.waveTimer = 1500,
     !.hazardSpawnTimer = 1500,
     !.asteroidSpawnTimer = 1500,
     !.player.x = x,
     !.player.vx = vx,
     !.keys = held]

\* The craft at rest in the middle; the craft 10 px from the left bound after
\* a second of 'a', at full speed; the same at the right bound with 'd'
LaneScenes ==
  { LaneScene((Width * 1000) \div 2, 0, {}),
    LaneScene((LaneMargin + 10) * 1000, -maxSpeedX(0), {"a"}),
    LaneScene((Width - LaneMargin - 10) * 1000, maxSpeedX(0), {"d"}) }

LaneKeys == {"a", "d"}

InitLane ==
  /\ \E r \in LaneScenes : Is(r)
  /\ call = Called("new", 0)
  /\ steps = 0

NextLane ==
  \/ Start
  \/ \E dt \in DtSet : Update(dt)
  \/ \E k \in LaneKeys : KeyDown(k)
  \/ \E k \in LaneKeys : KeyUp(k)

SpecLane == InitLane /\ [][NextLane]_vars

----------------------------------------------------------------------------
(* StorageManager: the users and the scores kept in localStorage.  The      *)
(* users are a sequence of records in the order of registration; the        *)
(* timestamp of a score is not part of the model.                           *)

\* the index of the user of that name, 0 if there is none
userIndex(users, username) ==
  IF \E i \in DOMAIN users : users[i].username = username
    THEN CHOOSE i \in DOMAIN users : users[i].username = username
    ELSE 0

\* Names of properties that every object inherits from Object.prototype: for
\* such a name users[name] is a function, and so truthy, in a users object
\* that has no user of that name
InheritedNames == {"constructor", "toString"}

\* registerUser(userData)
registerUser(st, userData) ==
  IF userData.username = "" \/ userData.email = ""
    THEN [store |-> st, success |-> FALSE]
  ELSE IF userIndex(st.users, userData.username) # 0
          \/ userData.username \in InheritedNames
    THEN [store |-> st, success |-> FALSE]
  ELSE IF \E i \in DOMAIN st.users : st.users[i].email = userData.email
    THEN [store |-> st, success |-> FALSE]
  ELSE [store |-> [st EXCEPT !.users =
                     Append(@, [username |-> userData.username,
                                email |-> userData.email,
                                scores |-> << >>,
                                stats |-> [totalGames |-> 0, totalScore |-> 0,
                                           highScore |-> 0]])],
        success |-> TRUE]

\* the list as it is, in the order of the calls
keepOrder(list) == list

\* sort((a, b) => b.score - a.score): a stable sort by descending score
RECURSIVE sortByScore(_)
sortByScore(list) ==
  IF list = << >>
    THEN << >>
    ELSE LET x == list[Len(list)]
             front == sortByScore(SubSeq(list, 1, Len(list) - 1))
             ahead == Cardinality({i \in DOMAIN front : front[i].score >= x.score})
         IN  SubSeq(front, 1, ahead) \o <<x>> \o SubSeq(front, ahead + 1, Len(front))

\* slice(0, n)
slice(list, n) == SubSeq(list, 1, Min(n, Len(list)))

\* the scores a user keeps
UserScores == 10

\* saveScore(username, scoreData); scoreData.given says that there is score
\* data, scoreData.numbers that score and duration are of type number.  For
\* an inherited name that is no user's, user is a function and
\* user.scores.push throws a TypeError: thrown says that the call has not
\* returned
saveScore(st, username, scoreData) ==
  LET u == userIndex(st.users, username)
      entry == [username |-> username, score |-> scoreData.score,
                duration |-> scoreData.duration]
  IN  IF ~scoreData.given \/ ~scoreData.numbers
        THEN [store |-> st, success |-> FALSE, score |-> entry, thrown |-> FALSE]
      ELSE IF u = 0 /\ username \in InheritedNames
        THEN [store |-> st, success |-> FALSE, score |-> entry, thrown |-> TRUE]
      ELSE IF u = 0
        THEN [store |-> st, success |-> FALSE, score |-> entry, thrown |-> FALSE]
      ELSE [store |->
              [st EXCEPT
                 !.users[u].scores = slice(sortByScore(Append(@, entry)), UserScores),
                 !.users[u].stats.totalGames = @ + 1,
                 !.users[u].stats.totalScore = @ + entry.score,
                 !.users[u].stats.highScore = Max(@, entry.score),
                 !.scores = sortByScore(Append(@, entry))],
            success |-> TRUE, score |-> entry, thrown |-> FALSE]

\* getTopScores(limit)
getTopScores(st, limit) == slice(st.scores, limit)

\* the calls explored from an empty storage
MaxCalls == 4

\* the registrations tried: two users, a second user with the e-mail address
\* of the first, a form without a name
UserData ==
  { [username |-> "pilot", email |-> "pilot@lanes"],
    [username |-> "ace", email |-> "ace@lanes"],
    [username |-> "ace", email |-> "pilot@lanes"],
    [username |-> "", email |-> "nobody@lanes"] }

\* the runs saved: two with the same score, a run without points, and data
\* that is not numeric
ScoreData ==
  { [score |-> 120, duration |-> 20, numbers |-> TRUE, given |-> TRUE],
    [score |-> 120, duration |-> 33, numbers |-> TRUE, given |-> TRUE],
    [score |-> 310, duration |-> 95, numbers |-> TRUE, given |-> TRUE],
    [score |-> 0, duration |-> 1, numbers |-> TRUE, given |-> TRUE],
    [score |-> 0, duration |-> 0, numbers |-> FALSE, given |-> TRUE] }

Limits == 0 .. 3

\* the storage after the registrations in the list
RECURSIVE Registered(_)
Registered(list) ==
  IF list = << >>
    THEN NewStorage
    ELSE registerUser(Registered(Tail(list)), Head(list)).store

\* the storage of a browser in which pilot has registered, or pilot and ace,
\* and nothing is saved
InitStore ==
  /\ \E list \in { << [username |-> "pilot", email |-> "pilot@lanes"] >>,
                   << [username |-> "ace", email |-> "ace@lanes"],
                      [username |-> "pilot", email |-> "pilot@lanes"] >> } :
       Is([Constructed EXCEPT !.storage = Registered(list)])
  /\ call = Called("new", 0)
  /\ steps = 0

\* one more call of the storage
StoreStep == steps < MaxCalls /\ steps' = steps + 1

RegisterUser(userData) ==
  /\ StoreStep
  /\ LET r == registerUser(storage, userData)
     IN  /\ Commit([Eng EXCEPT !.storage = r.store])
         /\ call' = Returned("registerUser", userData, r.success)

SaveScore(username, scoreData) ==
  /\ StoreStep
  /\ LET r == saveScore(storage, username, scoreData)
     IN  /\ Commit([Eng EXCEPT !.storage = r.store,
                               !.saved = IF r.success THEN Append(@, r.score) ELSE @])
         /\ call' = Returned("saveScore", r.score, r.success)

GetTopScores(limit) ==
  /\ StoreStep
  /\ Commit(Eng)
  /\ call' = Returned("getTopScores", limit, getTopScores(storage, limit))

NextStore ==
  \/ \E userData \in UserData : RegisterUser(userData)
  \/ \E username \in {"pilot", "ace"}, scoreData \in ScoreData :
       SaveScore(username, scoreData)
  \/ \E limit \in Limits : GetTopScores(limit)

SpecStore == InitStore /\ [][NextStore]_vars

\* saveScore(username) without score data
NoScoreData == [score |-> 0, duration |-> 0, numbers |-> FALSE, given |-> FALSE]

\* the names with which saveScore is called: two that users register, one
\* that nobody registers, and the inherited ones
Names == {"pilot", "ace", "nobody"} \cup InheritedNames

\* saveScore(username, scoreData) under any name, with its arguments and its
\* outcome kept whole
SaveScoreAs(username, scoreData) ==
  /\ StoreStep
  /\ LET r == saveScore(storage, username, scoreData)
     IN  /\ Commit([Eng EXCEPT !.storage = r.store,
                               !.saved = IF r.success THEN Append(@, r.score) ELSE @])
         /\ call' = Returned("saveScore",
                             [username |-> username, scoreData |-> scoreData],
                             [success |-> r.success, thrown |-> r.thrown])

\* a registration under an inherited name
InheritedUserData == [username |-> "constructor", email |-> "constructor@lanes"]

NextNames ==
  \/ \E userData \in UserData \cup {InheritedUserData} : RegisterUser(userData)
  \/ \E username \in Names, scoreData \in ScoreData \cup {NoScoreData} :
       SaveScoreAs(username, scoreData)

SpecNames == InitStore /\ [][NextNames]_vars

----------------------------------------------------------------------------
(* The page's game object: its frame callback and its buttons drive the     *)
(* engine, and its game-over handling hands the run to the storage          *)

\* Math.round of a time in ms, in whole seconds
Round(t) == (t + 500) \div 1000

\* handleGameOver(reason, engineState): for a logged-in user it calls
\* storage.saveScore(username, {score, duration})
handleGameOver(e) ==
  LET duration == Max(1, Round(e.time))
      finalScore == Max(0, e.score)
      r == saveScore(e.storage, e.game.user,
                     [score |-> finalScore, duration |-> duration, numbers |-> TRUE, given |-> TRUE])
  IN  IF e.game.user # NoUser
        THEN [e EXCEPT !.game.gameOvers = @ + 1,
                       !.game.saveScore = Append(@, r.score),
                       !.storage = r.store,
                       !.saved = IF r.success THEN Append(@, r.score) ELSE @]
        ELSE [e EXCEPT !.game.gameOvers = @ + 1]

\* SpaceLanesGame.update(delta): the engine's update, then the check for
\* game over on the engine's snapshot
gameUpdate(e, delta) ==
  { IF r.state = "gameover" THEN handleGameOver(r) ELSE r : r \in update(e, delta) }

\* renderFrame without its early return
renderFrameAnyPhase(e, delta) == gameUpdate(e, delta)

\* renderFrame(timestamp), delta being the time since the last frame: outside
\* phase playing it only draws
renderFrame(e, delta) ==
  IF e.state # "playing" THEN {e} ELSE gameUpdate(e, delta)

\* the logged-in users
Users == {"pilot"}

\* The engine at the menu and 20 s into a run, for a visitor and for a
\* registered user who is logged in
InitRun ==
  /\ \E r \in {Constructed, SceneField}, u \in Users \cup {NoUser} :
       Is([r EXCEPT !.game = NewGame(u),
                    !.storage = IF u = NoUser
                                  THEN NewStorage
                                  ELSE registerUser(NewStorage,
                                         [username |-> u, email |-> "pilot@lanes"]).store])
  /\ call = Called("new", 0)
  /\ steps = 0

\* the animation frame callback
RenderFrame(delta) ==
  /\ Step
  /\ \E r \in {x \in renderFrame(Eng, delta) : Bounded(x)} : Commit(r)
  /\ call' = Called("renderFrame", delta)

\* startRun(), the click listener of the start button
StartRun ==
  /\ Step
  /\ Commit(start(Eng))
  /\ call' = Called("startRun", 0)

\* SpaceLanesGame.pause(), the click listener of the pause button
PauseRun ==
  /\ Step
  /\ Commit(IF state # "playing" THEN Eng ELSE pause(Eng))
  /\ call' = Called("pauseRun", 0)

\* SpaceLanesGame.resume(), the click listener of the resume button
ResumeRun ==
  /\ Step
  /\ Commit(IF state # "paused" THEN Eng ELSE resume(Eng))
  /\ call' = Called("resumeRun", 0)

NextRun ==
  \/ \E delta \in DtSet : RenderFrame(delta)
  \/ StartRun
  \/ PauseRun
  \/ ResumeRun
  \/ \E k \in Keys : KeyDown(k)
  \/ \E k \in Keys : KeyUp(k)

SpecRun == InitRun /\ [][NextRun]_vars

----------------------------------------------------------------------------
(* PhysicsBody and the CollisionSystem.  The numbers of a body are floating *)
(* point numbers: finite ones in thousandths (of a pixel, of a pixel per    *)
(* second, of a second, of a unit of mass), the infinities and NaN.  The    *)
(* sign of a zero is not part of the model: every divisor that is zero      *)
(* here is a sum of inverse masses or a length, a positive zero.            *)

Finite(v) == [kind |-> "finite", v |-> v]

NaN == [kind |-> "NaN", v |-> 0]

\* the infinity of sign s
Infinity(s) == [kind |-> "Infinity", v |-> s]

\* a + b
fAdd(a, b) ==
  IF a.kind = "NaN" \/ b.kind = "NaN" THEN NaN
  ELSE IF a.kind = "Infinity" /\ b.kind = "Infinity"
    THEN IF a.v = b.v THEN a ELSE NaN
  ELSE IF a.kind = "Infinity" THEN a
  ELSE IF b.kind = "Infinity" THEN b
  ELSE Finite(a.v + b.v)

\* -a
fNeg(a) == [a EXCEPT !.v = -@]

\* a - b
fSub(a, b) == fAdd(a, fNeg(b))

\* a * b
fMul(a, b) ==
  IF a.kind = "NaN" \/ b.kind = "NaN" THEN NaN
  ELSE IF a.kind = "Infinity" \/ b.kind = "Infinity"
    THEN IF a.v = 0 \/ b.v = 0 THEN NaN ELSE Infinity(Sign(a.v) * Sign(b.v))
  ELSE Finite(Scale(a.v * b.v, 1, 1000))

\* a / b
fDiv(a, b) ==
  IF a.kind = "NaN" \/ b.kind = "NaN" THEN NaN
  ELSE IF a.kind = "Infinity"
    THEN IF b.kind = "Infinity" THEN NaN
         ELSE Infinity(a.v * (IF b.v < 0 THEN -1 ELSE 1))
  ELSE IF b.kind = "Infinity" THEN Finite(0)
  ELSE IF b.v = 0
    THEN IF a.v = 0 THEN NaN ELSE Infinity(Sign(a.v))
  ELSE Finite(Sign(a.v) * Sign(b.v) * ((Abs(a.v) * 1000) \div Abs(b.v)))

\* a > 0
fPositive(a) == a.kind # "NaN" /\ a.v > 0

\* the largest r in lo .. hi with r * r <= n
RECURSIVE rootIn(_, _, _)
rootIn(n, lo, hi) ==
  IF lo = hi
    THEN lo
    ELSE LET mid == (lo + hi + 1) \div 2
         IN  IF mid * mid <= n THEN rootIn(n, mid, hi) ELSE rootIn(n, lo, mid - 1)

\* Math.sqrt(x * x + y * y)
hypot(x, y) ==
  IF x.kind = "NaN" \/ y.kind = "NaN" THEN NaN
  ELSE IF x.kind = "Infinity" \/ y.kind = "Infinity" THEN Infinity(1)
  ELSE Finite(rootIn(x.v * x.v + y.v * y.v, 0, 46340))

\* new Vector2D(x, y), x and y finite
Vector2D(x, y) == [x |-> Finite(x), y |-> Finite(y)]

\* Vector2D.add(v1, v2)
vAdd(v1, v2) == [x |-> fAdd(v1.x, v2.x), y |-> fAdd(v1.y, v2.y)]

\* Vector2D.subtract(v1, v2)
vSubtract(v1, v2) == [x |-> fSub(v1.x, v2.x), y |-> fSub(v1.y, v2.y)]

\* Vector2D.multiply(v, scalar)
vMultiply(v, scalar) == [x |-> fMul(v.x, scalar), y |-> fMul(v.y, scalar)]

\* Vector2D.dot(v1, v2)
vDot(v1, v2) == fAdd(fMul(v1.x, v2.x), fMul(v1.y, v2.y))

\* magnitude()
magnitude(v) == hypot(v.x, v.y)

\* divide(scalar): nothing if the scalar is 0
vDivide(v, scalar) ==
  IF scalar = Finite(0)
    THEN v
    ELSE [x |-> fDiv(v.x, scalar), y |-> fDiv(v.y, scalar)]

\* normalize(): nothing unless the length is positive
normalize(v) ==
  IF fPositive(magnitude(v)) THEN vDivide(v, magnitude(v)) ELSE v

\* new PhysicsBody(x, y, mass) with restitution 0.8, given a velocity with
\* setVelocity and the static flag by assignment
Body(x, y, vx, vy, mass, isStatic) ==
  [ position |-> Vector2D(x, y),
    velocity |-> Vector2D(vx, vy),
    force |-> Vector2D(0, 0),
    mass |-> Finite(mass),
    inverseMass |-> IF mass > 0 THEN fDiv(Finite(1000), Finite(mass)) ELSE Finite(0),
    angle |-> Finite(0),
    angularVelocity |-> Finite(0),
    torque |-> Finite(0),
    restitution |-> 800,
    isStatic |-> isStatic ]

\* applyForce(force)
applyForce(b, force) ==
  IF b.isStatic THEN b ELSE [b EXCEPT !.force = vAdd(@, force)]

\* applyImpulse(impulse)
applyImpulse(b, impulse) ==
  IF b.isStatic
    THEN b
    ELSE [b EXCEPT !.velocity = vAdd(@, vMultiply(impulse, b.inverseMass))]

\* applyForceAtPoint(force, point)
applyForceAtPoint(b, force, point) ==
  IF b.isStatic
    THEN b
    ELSE LET r == vSubtract(point, b.position)
             crossProduct == fSub(fMul(r.x, force.y), fMul(r.y, force.x))
         IN  [applyForce(b, force) EXCEPT !.torque = fAdd(@, crossProduct)]

\* update(deltaTime) for any body
bodyUpdateAnyBody(b, dt) ==
  LET acceleration == vMultiply(b.force, b.inverseMass)
      v1 == vAdd(b.velocity, vMultiply(acceleration, Finite(dt)))
      velocity == vMultiply(v1, Finite(1000 - (6 * dt) \div 100))
      angularAcceleration == fMul(b.torque, b.inverseMass)
      w1 == fAdd(b.angularVelocity, fMul(angularAcceleration, Finite(dt)))
      angularVelocity == fMul(w1, Finite(1000 - (3 * dt) \div 10))
  IN  [b EXCEPT !.velocity = velocity,
                !.position = vAdd(@, vMultiply(velocity, Finite(dt))),
                !.angularVelocity = angularVelocity,
                !.angle = fAdd(@, fMul(angularVelocity, Finite(dt))),
                !.force = Vector2D(0, 0),
                !.torque = Finite(0)]

\* PhysicsBody.update(deltaTime), deltaTime in ms: the dampings
\* 0.999 ^ (60 deltaTime) and 0.995 ^ (60 deltaTime) are 1 - 0.00006 dt and
\* 1 - 0.0003 dt to three decimals
bodyUpdate(b, dt) == IF b.isStatic THEN b ELSE bodyUpdateAnyBody(b, dt)

\* CollisionSystem.resolveCollision(obj1, obj2, restitution): the two bodies
\* after the call
resolveCollision(obj1, obj2, restitution) ==
  LET normal == normalize(vSubtract(obj2.position, obj1.position))
      relativeVelocity == vSubtract(obj2.velocity, obj1.velocity)
      velocityAlongNormal == vDot(relativeVelocity, normal)
      e == Finite((Min(obj1.restitution, obj2.restitution) * restitution) \div 1000)
      j == fDiv(fMul(fNeg(fAdd(Finite(1000), e)), velocityAlongNormal),
                fAdd(obj1.inverseMass, obj2.inverseMass))
      impulse == vMultiply(normal, j)
  IN  IF fPositive(velocityAlongNormal)
        THEN << obj1, obj2 >>
        ELSE << IF obj1.isStatic
                  THEN obj1
                  ELSE [obj1 EXCEPT !.velocity =
                          vAdd(@, vMultiply(impulse, fNeg(obj1.inverseMass)))],
                IF obj2.isStatic
                  THEN obj2
                  ELSE [obj2 EXCEPT !.velocity =
                          vAdd(@, vMultiply(impulse, obj2.inverseMass))] >>

\* CollisionSystem.separateObjects(obj1, obj2, radius1, radius2)
separateObjects(obj1, obj2, radius1, radius2) ==
  LET normal == vSubtract(obj2.position, obj1.position)
      distance == magnitude(normal)
      overlap == fSub(Finite(radius1 + radius2), distance)
      separation == vMultiply(normalize(normal), fDiv(overlap, Finite(2000)))
  IN  IF fPositive(overlap) /\ fPositive(distance)
        THEN << IF obj1.isStatic
                  THEN obj1
                  ELSE [obj1 EXCEPT !.position = vSubtract(@, separation)],
                IF obj2.isStatic
                  THEN obj2
                  ELSE [obj2 EXCEPT !.position = vAdd(@, separation)] >>
        ELSE << obj1, obj2 >>

\* Pairs of overlapping bodies of radius 4 px: a static body that was given
\* a velocity and a body of mass 2 flying into it; two bodies of mass 1 and 2
\* flying into each other; the same two with their centres in one point; two
\* bodies of mass 0 flying into each other; two bodies of mass 0 in one point
BodyPairs ==
  { << Body(0, 0, 2000, 0, 1000, TRUE), Body(3000, 4000, -10000, 0, 2000, FALSE) >>,
    << Body(0, 0, 5000, 0, 1000, FALSE), Body(3000, 4000, -10000, 0, 2000, FALSE) >>,
    << Body(0, 0, 5000, 0, 1000, FALSE), Body(0, 0, -10000, 0, 2000, FALSE) >>,
    << Body(0, 0, 5000, 0, 0, FALSE), Body(3000, 4000, -10000, 0, 0, FALSE) >>,
    << Body(0, 0, 5000, 0, 0, FALSE), Body(0, 0, -10000, 0, 0, FALSE) >> }

\* the forces and impulses applied, and the point of application
Pushes == {Vector2D(5000, 0), Vector2D(0, -5000)}

PushPoint == Vector2D(1000, 1000)

\* the radius of the bodies (thousandths of a pixel)
BodyRadius == 4000

\* the frame times (ms)
BodyDts == {16, 100}

InitBody ==
  /\ \E pair \in BodyPairs : Is([Constructed EXCEPT !.bodies = pair])
  /\ call = Called("new", 0)
  /\ steps = 0

ApplyForce(i, force) ==
  /\ Step
  /\ Commit([Eng EXCEPT !.bodies[i] = applyForce(@, force)])
  /\ call' = Called("applyForce", i)

ApplyImpulse(i, impulse) ==
  /\ Step
  /\ Commit([Eng EXCEPT !.bodies[i] = applyImpulse(@, impulse)])
  /\ call' = Called("applyImpulse", i)

ApplyForceAtPoint(i, force) ==
  /\ Step
  /\ Commit([Eng EXCEPT !.bodies[i] = applyForceAtPoint(@, force, PushPoint)])
  /\ call' = Called("applyForceAtPoint", i)

BodyUpdate(i, dt) ==
  /\ Step
  /\ Commit([Eng EXCEPT !.bodies[i] = bodyUpdate(@, dt)])
  /\ call' = Called("update", i)

ResolveCollision ==
  /\ Step
  /\ Commit([Eng EXCEPT !.bodies = resolveCollision(bodies[1], bodies[2], 800)])
  /\ call' = Called("resolveCollision", 0)

SeparateObjects ==
  /\ Step
  /\ Commit([Eng EXCEPT !.bodies =
               separateObjects(bodies[1], bodies[2], BodyRadius, BodyRadius)])
  /\ call' = Called("separateObjects", 0)

NextBody ==
  \/ \E i \in 1 .. 2, force \in Pushes : ApplyForce(i, force)
  \/ \E i \in 1 .. 2, impulse \in Pushes : ApplyImpulse(i, impulse)
  \/ \E i \in 1 .. 2, force \in Pushes : ApplyForceAtPoint(i, force)
  \/ \E i \in 1 .. 2, dt \in BodyDts : BodyUpdate(i, dt)
  \/ ResolveCollision
  \/ SeparateObjects

SpecBody == InitBody /\ [][NextBody]_vars

-----------------------------------------------------------------------------
(* The broad phase of CollisionSystem: createSpatialHash and               *)
(* getPotentialCollisions                                                   *)

\* the default of the parameter cellSize (px)
CellSize == 100

\* The classes of the objects of the game.  The constructors of Asteroid,
\* Projectile and PowerUp set the field id (a random string, taken distinct
\* from object to object); Spaceship and PhysicsBody have no such field
EntityKinds == {"Spaceship", "PhysicsBody", "Asteroid", "Projectile", "PowerUp"}

hasId(kind) == kind \in {"Asteroid", "Projectile", "PowerUp"}

\* the value of obj.id: the id of the object, or undefined
Undefined == [defined |-> FALSE, n |-> 0]

\* An object of class kind at place: ref is the identity of the object
Entity(ref, kind, place) ==
  [ ref |-> ref,
    kind |-> kind,
    id |-> IF hasId(kind) THEN [defined |-> TRUE, n |-> ref] ELSE Undefined,
    position |-> place ]

\* the key `${cellX},${cellY}` of the cell of obj (\div rounds down, as
\* Math.floor does)
cellKey(obj) == << obj.position.x \div CellSize, obj.position.y \div CellSize >>

\* The body of the forEach of createSpatialHash: obj goes to the end of the
\* array of its cell, which is created when the key is new
hashPut(hash, obj) ==
  IF \E k \in DOMAIN hash : hash[k].key = cellKey(obj)
    THEN [k \in DOMAIN hash |->
            IF hash[k].key = cellKey(obj)
              THEN [hash[k] EXCEPT !.cell = Append(@, obj)]
              ELSE hash[k]]
    ELSE Append(hash, [key |-> cellKey(obj), cell |-> << obj >>])

\* createSpatialHash(objects): the Map, as the sequence of its entries in
\* the order of their insertion
RECURSIVE createSpatialHash(_)
createSpatialHash(objects) ==
  IF objects = << >>
    THEN << >>
    ELSE hashPut(createSpatialHash(SubSeq(objects, 1, Len(objects) - 1)),
                 objects[Len(objects)])

\* the key `${a.id}-${b.id}` of getPotentialCollisions
pairKey(a, b) == << a.id, b.id >>

\* The loops over i and j > i of one cell: the pairs in the order in which
\* the loops visit them
RECURSIVE cellPairs(_, _, _)
cellPairs(cell, i, j) ==
  IF i > Len(cell)
    THEN << >>
    ELSE IF j > Len(cell)
      THEN cellPairs(cell, i + 1, i + 2)
      ELSE << << cell[i], cell[j] >> >> \o cellPairs(cell, i, j + 1)

\* The pairs that all the cells of the hash visit, cell after cell
RECURSIVE visited(_)
visited(hash) ==
  IF hash = << >>
    THEN << >>
    ELSE cellPairs(Head(hash).cell, 1, 2) \o visited(Tail(hash))

\* The test of the set `checked`: a pair is pushed when its key is new
RECURSIVE pushNew(_, _, _)
pushNew(cands, pairs, checked) ==
  IF cands = << >>
    THEN pairs
    ELSE LET c == Head(cands)
             key == pairKey(c[1], c[2])
         IN  IF key \in checked
               THEN pushNew(Tail(cands), pairs, checked)
               ELSE pushNew(Tail(cands), Append(pairs, c), checked \cup {key})

\* getPotentialCollisions(spatialHash)
getPotentialCollisions(spatialHash) == pushNew(visited(spatialHash), << >>, {})

\* the number of objects handed to the broad phase
MaxEntities == 3

\* Places (px): two in one cell, one in the cell to its right, one in the
\* cell to its left, where the coordinate is negative
Places ==
  { [x |-> 50, y |-> 50], [x |-> 60, y |-> 70],
    [x |-> 150, y |-> 50], [x |-> -50, y |-> 50] }

InitHash ==
  /\ \E n \in 2..MaxEntities :
       \E kinds \in [1..n -> EntityKinds], places \in [1..n -> Places] :
         Is([Constructed EXCEPT
               !.bodies = [k \in 1..n |-> Entity(k, kinds[k], places[k])]])
  /\ call = Called("new", 0)
  /\ steps = 0

CreateSpatialHash ==
  /\ Step
  /\ Commit(Eng)
  /\ call' = Returned("createSpatialHash", 0, createSpatialHash(bodies))

GetPotentialCollisions ==
  /\ Step
  /\ call.op = "createSpatialHash"
  /\ Commit(Eng)
  /\ call' = Returned("getPotentialCollisions", 0, getPotentialCollisions(call.ret))

NextHash ==
  \/ CreateSpatialHash
  \/ GetPotentialCollisions

SpecHash == InitHash /\ [][NextHash]_vars

-----------------------------------------------------------------------------
(* A ParticleSystem on its own.  A particle is modelled by the fields that  *)
(* decide when update removes it: life (millionths), decay (thousandths per *)
(* second) and, for the swirl of a gravity well, the radius of its orbit    *)
(* (thousandths of a pixel)                                                 *)

\* ParticleSystem.maxParticles
maxParticles == 1000

\* A particle as the create methods push it: life: 1.0
Particle(type, decay, orbitRadius) ==
  [type |-> type, life |-> 1000000, decay |-> decay, orbitRadius |-> orbitRadius]

\* count pushes of one particle
pushAll(ps, count, p) == ps \o [k \in 1..count |-> p]

\* the counts that the engine passes to createExplosion and createDebris
ExplosionCounts == {20, 30, 50, 80}

DebrisCounts == {15, 30, 40}

\* hazard.radius (px), which the engine passes to createBlackHoleEffect
HazardRadii == {80, 150}

\* createExplosion(x, y, count, color, speed): decay is 0.5 + Math.random() * 0.5,
\* the draws of one call taken equal
createExplosion(ps, count) ==
  { pushAll(ps, count, Particle("explosion", decay, 0)) : decay \in {500, 1000} }

\* createDebris(x, y, count, color): decay is 0.3 + Math.random() * 0.3
createDebris(ps, count) ==
  { pushAll(ps, count, Particle("debris", decay, 0)) : decay \in {300, 600} }

\* createThrust(x, y, angle, color)
createThrust(ps) == pushAll(ps, 3, Particle("thrust", 2000, 0))

\* createShieldHit(x, y, color)
createShieldHit(ps) == pushAll(ps, 20, Particle("shield", 1500, 0))

\* createTrail(x, y, vx, vy, color): nothing above nine tenths of maxParticles
createTrail(ps) ==
  IF 10 * Len(ps) > 9 * maxParticles
    THEN ps
    ELSE Append(ps, Particle("trail", 1500, 0))

\* createCollectEffect(x, y, color)
createCollectEffect(ps) == pushAll(ps, 25, Particle("collect", 1000, 0))

\* createDamageSparks(x, y, direction, color)
createDamageSparks(ps) == pushAll(ps, 10, Particle("sparks", 1200, 0))

\* createBlackHoleEffect(x, y, radius): distance is radius + Math.random() * 50,
\* the draws of one call taken equal
createBlackHoleEffect(ps, radius) ==
  { pushAll(ps, 5, Particle("blackhole", 500, 1000 * (radius + far))) :
    far \in {0, 49} }

\* One particle in the loop of update(deltaTime): a swirl that has come
\* within 5 px of its centre is removed before its life is touched
particleStep(p, dt) ==
  LET orbit == p.orbitRadius - 20 * dt
  IN  IF p.type = "blackhole"
        THEN IF orbit < 5000
               THEN [p EXCEPT !.orbitRadius = orbit, !.life = 0]
               ELSE [p EXCEPT !.orbitRadius = orbit, !.life = @ - dt * p.decay]
        ELSE [p EXCEPT !.life = @ - dt * p.decay]

particleDead(p) == p.life <= 0

\* ParticleSystem.update(deltaTime): every particle makes its step, and the
\* dead ones are spliced out
particlesUpdate(ps, dt) ==
  LET alive(p) == ~particleDead(p)
  IN  SelectSeq([k \in DOMAIN ps |-> particleStep(ps[k], dt)], alive)

\* the frame times (ms)
ParticleDts == {50, 100}

\* n calls of createExplosion(x, y, 30) with decay 1.0 on a system
RECURSIVE Explosions(_, _)
Explosions(ps, n) ==
  IF n = 0
    THEN ps
    ELSE Explosions(pushAll(ps, 30, Particle("explosion", 1000, 0)), n - 1)

\* n updates of 0.1 s
RECURSIVE Updates(_, _)
Updates(ps, n) == IF n = 0 THEN ps ELSE Updates(particlesUpdate(ps, 100), n - 1)

\* The system when new; after 29 explosions and 0.9 s, with one more
\* explosion then; and after 30 and after 33 explosions in one frame
ParticleScenes ==
  { << >>,
    Explosions(Updates(Explosions(<< >>, 29), 9), 1),
    Explosions(<< >>, 30),
    Explosions(<< >>, 33) }

InitParticles ==
  /\ \E ps \in ParticleScenes : Is([Constructed EXCEPT !.particles = ps])
  /\ call = Called("new", 0)
  /\ steps = 0

CreateExplosion(count) ==
  /\ Step
  /\ \E ps \in createExplosion(particles, count) : Commit([Eng EXCEPT !.particles = ps])
  /\ call' = Called("createExplosion", count)

CreateDebris(count) ==
  /\ Step
  /\ \E ps \in createDebris(particles, count) : Commit([Eng EXCEPT !.particles = ps])
  /\ call' = Called("createDebris", count)

CreateThrust ==
  /\ Step
  /\ Commit([Eng EXCEPT !.particles = createThrust(particles)])
  /\ call' = Called("createThrust", 0)

CreateShieldHit ==
  /\ Step
  /\ Commit([Eng EXCEPT !.particles = createShieldHit(particles)])
  /\ call' = Called("createShieldHit", 0)

CreateTrail ==
  /\ Step
  /\ Commit([Eng EXCEPT !.particles = createTrail(particles)])
  /\ call' = Called("createTrail", 0)

CreateCollectEffect ==
  /\ Step
  /\ Commit([Eng EXCEPT !.particles = createCollectEffect(particles)])
  /\ call' = Called("createCollectEffect", 0)

CreateDamageSparks ==
  /\ Step
  /\ Commit([Eng EXCEPT !.particles = createDamageSparks(particles)])
  /\ call' = Called("createDamageSparks", 0)

CreateBlackHoleEffect(radius) ==
  /\ Step
  /\ \E ps \in createBlackHoleEffect(particles, radius) :
       Commit([Eng EXCEPT !.particles = ps])
  /\ call' = Called("createBlackHoleEffect", radius)

ParticlesUpdate(dt) ==
  /\ Step
  /\ Commit([Eng EXCEPT !.particles = particlesUpdate(particles, dt)])
  /\ call' = Called("update", dt)

\* ParticleSystem.clear()
ParticlesClear ==
  /\ Step
  /\ Commit([Eng EXCEPT !.particles = << >>])
  /\ call' = Called("clear", 0)

NextParticles ==
  \/ \E count \in ExplosionCounts : CreateExplosion(count)
  \/ \E count \in DebrisCounts : CreateDebris(count)
  \/ CreateThrust
  \/ CreateShieldHit
  \/ CreateTrail
  \/ CreateCollectEffect
  \/ CreateDamageSparks
  \/ \E radius \in HazardRadii : CreateBlackHoleEffect(radius)
  \/ \E dt \in ParticleDts : ParticlesUpdate(dt)
  \/ ParticlesClear

SpecParticles == InitParticles /\ [][NextParticles]_vars

----------------------------------------------------------------------------
(* The run phase *)

\* C1: the run phase is always one of menu, playing, paused, gameover, and it
\* changes only along menu -> playing (start), playing -> paused (pause),
\* paused -> playing (resume or start), playing -> gameover (a lethal hit
\* inside update) and gameover -> playing (start).
C1_PhaseEdges ==
  /\ state \in Phases
  /\ [][ /\ state' \in Phases
         /\ state' # state =>
              \/ state = "menu" /\ state' = "playing" /\ call'.op = "start"
              \/ state = "playing" /\ state' = "paused" /\ call'.op = "pause"
              \/ state = "paused" /\ state' = "playing" /\ call'.op \in {"resume", "start"}
              \/ /\ state = "playing" /\ state' = "gameover" /\ call'.op = "update"
                 /\ player.health > 0 /\ player'.health = 0
              \/ state = "gameover" /\ state' = "playing" /\ call'.op = "start"
       ]_vars

\* an update has ended the run
C1_Witness == call.op = "update" /\ state = "gameover" /\ player.health = 0

\* C2: pause() in a phase other than playing, and resume() in a phase other
\* than paused, leave the phase and every other field of the session as
\* they were.
C2_PauseResumeNoOp ==
  [][ \/ call'.op = "pause" /\ state # "playing"
      \/ call'.op = "resume" /\ state # "paused"
      => UNCHANGED session ]_vars

\* pause() has been called after the run had ended
C2_Witness == call.op = "pause" /\ state = "gameover"

\* C3: update(dt) in phase menu, paused or gameover changes nothing in the
\* session: time, score, kills, wave, the timers and the collections.
C3_UpdateOutsidePlaying ==
  [][ call'.op = "update" /\ state # "playing" => UNCHANGED session ]_vars

\* update has been called while the run, with asteroids in the field, was
\* paused
C3_Witness ==
  /\ call.op = "update"
  /\ call.arg = 250
  /\ state = "paused"
  /\ asteroids # << >>

\* score, kill count and the obstacle collection
tally == <<score, kills, asteroids>>

\* what the stages of update after the asteroid loop write
laterStages ==
  <<score, kills, wave, powerUps, hazards, comboSystem, weaponSystem,
    asteroidSpawnTimer, hazardSpawnTimer, waveTimer, timeouts>>

\* C4: score, kill count and the obstacle collection stay as they are while
\* the phase is paused or gameover, whatever happens in between (update
\* calls, input events, deferred chain-reaction callbacks), until start().
C4_FrozenOutsidePlaying ==
  [][ /\ state \in {"paused", "gameover"}
      /\ call'.op # "start"
      => UNCHANGED tally ]_vars

\* C5: a hit that takes the craft's health to 0 during an update ends the
\* run in that update and the rest of the step is skipped (time has
\* advanced, but no projectile has aged and no score, timer or collection of
\* the later stages has changed); after every step that leaves the phase
\* playing the craft's health is > 0.
C5_LethalHitEndsRun ==
  /\ state = "playing" => player.health > 0
  /\ [][ /\ state' = "playing" => player'.health > 0
         /\ call'.op = "update" /\ state = "playing" /\ player'.health = 0 =>
              /\ state' = "gameover"
              /\ time' = time + Min(call'.arg, MaxDeltaTime)
              /\ Len(projectiles') >= Len(projectiles)
              /\ \A i \in 1..Len(projectiles) : projectiles'[i] = projectiles[i]
              /\ UNCHANGED laterStages
       ]_vars

\* a frame of 50 ms has ended the run 20 s after its start: the time has
\* advanced, the wave timer has not
C5_Witness ==
  /\ call.op = "update"
  /\ state = "gameover"
  /\ player.health = 0
  /\ time = 20050
  /\ waveTimer = 20000
  /\ projectiles = << InFlight >>

----------------------------------------------------------------------------
(* The shield of the craft *)

\* the shield is up and holds
shielded(p) == p.shield.active /\ p.shield.strength > 0

\* C6, as the specification states it: whenever the shield is active with
\* strength > 0, takeDamage(amount) takes the amount off the shield strength
\* (not below 0), leaves the health as it is and returns false.
C6_ShieldAlwaysAbsorbs ==
  [][ call'.op = "takeDamage" /\ shielded(player) =>
        /\ player'.shield.strength = Max(0, player.shield.strength - call'.arg)
        /\ player'.health = player.health
        /\ call'.ret = FALSE
    ]_vars

\* C6, amended: the same for a craft that is not invulnerable; a shield at
\* strength 0 is inactive, and takeDamage on a craft that is neither shielded
\* nor invulnerable takes the amount off the health (not below 0) and leaves
\* the shield as it is.
C6_ShieldPrecedence ==
  [][ call'.op = "takeDamage" =>
        /\ shielded(player) /\ ~player.invulnerable =>
              /\ player'.shield.strength = Max(0, player.shield.strength - call'.arg)
              /\ player'.health = player.health
              /\ call'.ret = FALSE
        /\ player'.shield.strength = 0 => ~player'.shield.active
        /\ ~shielded(player) /\ ~player.invulnerable =>
              /\ player'.health = Max(0, player.health - call'.arg)
              /\ player'.shield = player.shield
              /\ call'.ret = (player'.health = 0)
    ]_vars

\* a hit has brought the shield to 0 and the next hit has reduced the health
C6_Witness ==
  /\ call.op = "takeDamage"
  /\ player.shield.strength = 0
  /\ ~player.shield.active
  /\ player.health = player.maxHealth - call.arg
  /\ steps = 2

----------------------------------------------------------------------------
(* Combo and score *)

\* the sum of the awards of a call
RECURSIVE SumAwards(_)
SumAwards(aw) == IF aw = << >> THEN 0 ELSE Head(aw).amount + SumAwards(Tail(aw))

\* the awards of a kind
AwardsOf(aw, kinds) == SelectSeq(aw, LAMBDA a : a.kind \in kinds)

\* C7: the combo multiplier is min(1 + 0.1 * count, 8.0) and the combo count
\* is never negative.
C7_MultiplierFormula ==
  /\ comboSystem.count >= 0
  /\ comboSystem.multiplier = Min(10 + comboSystem.count, 80)

\* the 71st kill of a streak has been counted: the multiplier stays at 8.0
C7_Witness ==
  /\ call.op = "update"
  /\ comboSystem.count = 71
  /\ comboSystem.timer > 0
  /\ kills = 71

\* C8: when an update of a run with a streak (count > 0) brings the time
\* without a kill to 3.0 s, the count returns to 0 and the multiplier to 1.0;
\* a streak of 10 or more banks the bonus 50 * count > 0, a shorter one
\* banks nothing.
C8_ComboDecay ==
  [][ /\ call'.op = "update" /\ state = "playing" /\ state' = "playing"
      /\ comboSystem.count > 0
      /\ AwardsOf(awards', {"kill"}) = << >>
      /\ comboSystem.timer + Min(call'.arg, MaxDeltaTime) >= 3000
      => /\ comboSystem'.count = 0
         /\ comboSystem'.multiplier = 10
         /\ score' = score + SumAwards(awards')
         /\ LET banked == AwardsOf(awards', {"bonus"})
            IN  IF comboSystem.count >= 10
                  THEN /\ Len(banked) = 1
                       /\ banked[1].amount = 50 * comboSystem.count
                       /\ banked[1].amount > 0
                  ELSE banked = << >>
    ]_vars

\* a streak of 10 has lapsed and banked 500 points
C8_Witness ==
  /\ call.op = "update"
  /\ comboSystem.count = 0
  /\ AwardsOf(awards, {"bonus"}) # << >>
  /\ score = StreakScore(10) + 500
  /\ kills = 10

\* C9: the k-th projectile kill of an update scores floor(base * multiplier),
\* the multiplier being the one after that kill has been counted into the
\* streak and the base that of the size class, or the boss value for a boss;
\* every kill adds exactly 1 to the kill count.
C9_KillScore ==
  [][ call'.op = "update" =>
        LET shot == AwardsOf(awards', {"kill"})
        IN  /\ \A k \in 1..Len(shot) :
                 shot[k].amount =
                   ((IF shot[k].isBoss THEN 1000 ELSE killScoreMap(shot[k].size))
                    * Min(10 + comboSystem.count + k, 80)) \div 10
            /\ score' = score + SumAwards(awards')
            /\ kills' = kills + Len(AwardsOf(awards', {"kill", "chain"}))
    ]_vars

\* the boss has been shot down at the first kill of a streak
C9_Witness ==
  /\ call.op = "update"
  /\ \E i \in DOMAIN awards :
       awards[i].kind = "kill" /\ awards[i].isBoss /\ awards[i].amount = 1100
  /\ comboSystem.count = 1
  /\ kills >= 1

\* C10: at an equal multiplier, a boss kill scores at least what the kill of
\* a huge obstacle scores; the score and every award are >= 0.
C10_BossAtLeastHuge ==
  /\ score >= 0
  /\ \A i \in DOMAIN awards :
       /\ awards[i].amount >= 0
       /\ awards[i].isBoss =>
            awards[i].amount >= (killScoreMap("huge") * awards[i].multiplier) \div 10

----------------------------------------------------------------------------
(* Splitting *)

\* the asteroids appended to the list by the last step
appended == SubSeq(asteroids', Len(asteroids) + 1, Len(asteroids'))

\* C11: split() on a huge, large or medium asteroid returns 2 or 3 fragments,
\* all of the next smaller size (large, medium, small); on a small asteroid it
\* returns none; it leaves the size, radius and mass of the asteroid it is
\* called on as they were.
C11_SplitFragments ==
  [][ call'.op = "split" =>
        LET a == asteroids[call'.arg]
            after == asteroids'[call'.arg]
        IN  /\ Len(appended) = call'.ret
            /\ a.size \in {"huge", "large", "medium"} => Len(appended) \in {2, 3}
            /\ a.size = "small" => appended = << >>
            /\ \A k \in DOMAIN appended :
                 \/ a.size = "huge" /\ appended[k].size = "large"
                 \/ a.size = "large" /\ appended[k].size = "medium"
                 \/ a.size = "medium" /\ appended[k].size = "small"
            /\ after.size = a.size
            /\ after.radius = a.radius
            /\ after.mass = a.mass
    ]_vars

\* a medium asteroid has split into three small ones, and the split of one of
\* these has returned nothing
C11_Witness ==
  /\ call = Returned("split", 2, 0)
  /\ Len(asteroids) = 4
  /\ asteroids[1].size = "medium"
  /\ \A k \in 2..4 : asteroids[k] = NewAsteroid("small")

\* C12: a boss never splits: no split() of the last call was that of a boss
\* and put fragments into the field, whether the boss was shot down, rammed
\* the craft or was destroyed by the splash of a chain reaction.
C12_BossNeverSplits ==
  \A i \in DOMAIN events :
    ~(events[i].kind = "split" /\ events[i].isBoss /\ events[i].count > 0)

----------------------------------------------------------------------------
(* Waves and the boss *)

\* the number of bosses among the asteroids as
Bosses(as) == Len(SelectSeq(as, LAMBDA a : a.isBoss))

\* the events of a kind
EventsOf(ev, kind) == SelectSeq(ev, LAMBDA x : x.kind = kind)

\* C13: the update in which the wave number becomes a multiple of 5 adds
\* exactly one boss to the field (and no other update adds one), and the
\* periodic spawner adds no asteroid in an update at whose end a boss that was
\* in the field before it is still there.
C13_BossGating ==
  [][ call'.op = "update" =>
        /\ Len(EventsOf(events', "boss")) =
             (IF wave' # wave /\ wave' % 5 = 0 THEN 1 ELSE 0)
        /\ EventsOf(events', "boss") # << >> => asteroids'[Len(asteroids')].isBoss
        /\ Bosses(asteroids') - Len(EventsOf(events', "boss")) >= 1 =>
             EventsOf(events', "spawn") = << >>
    ]_vars

\* C14: the boss flag is true if and only if a boss is among the asteroids,
\* whatever removed the boss (a projectile, the craft it rammed, the splash of
\* a chain reaction, the edge of the field).
C14_BossFlagIffBoss == bossSystem.active <=> Bosses(asteroids) >= 1

\* C15: a run starts at wave 1 with capacity 20 and spawn rate 2.0 s; every
\* completed wave interval (an update that takes the wave timer to 30 s) adds
\* 1 to the wave number, 2 to the capacity and one factor 0.85 to the rate,
\* and nothing else changes them: after k intervals the wave is 1 + k, the
\* capacity 20 + 2 k and the rate 2.0 s * 0.85 ^ k.
C15_Escalation ==
  /\ wave >= 1
  /\ config.maxAsteroids = 20 + 2 * (wave - 1)
  /\ config.asteroidSpawnRate = wave - 1
  /\ [][ /\ config'.maxAsteroids = 20 + 2 * (wave' - 1)
         /\ config'.asteroidSpawnRate = wave' - 1
         /\ call'.op = "start" => wave' = 1
         /\ call'.op = "update" /\ state = "playing" =>
              wave' = IF /\ state' = "playing"
                         /\ waveTimer + Min(call'.arg, 100) >= 30000
                        THEN wave + 1
                        ELSE wave
         /\ call'.op \notin {"start", "update"} \/ state # "playing" =>
              call'.op = "start" \/ wave' = wave
       ]_vars

\* the fifth wave interval of a run has been completed at 150 s: wave 6,
\* capacity 30, and the rate 2.0 s * 0.85 ^ 5 = 0.88741 s lies between 887 ms
\* and 888 ms
C15_Witness ==
  /\ call.op = "update"
  /\ time = 150000
  /\ waveTimer = 0
  /\ wave = 6
  /\ config.maxAsteroids = 30
  /\ config.asteroidSpawnRate = 5
  /\ spawnDue(888, config.asteroidSpawnRate)
  /\ ~spawnDue(887, config.asteroidSpawnRate)

----------------------------------------------------------------------------
(* The lane *)

\* C16: in lane-shooter mode the craft's x position lies in
\* [50, width - 50] at the end of every update, whatever direction keys are
\* held and whatever the step sizes: holding 'a' never takes it below 50.
C16_LaneClamp ==
  /\ player.x >= 50 * 1000
  /\ player.x <= (Width - 50) * 1000

\* three updates with 'a' held have left the craft on the left bound, stopped
C16_Witness ==
  /\ call.op = "update"
  /\ steps = 3
  /\ "a" \in keys
  /\ player.x = 50 * 1000
  /\ player.vx = 0

----------------------------------------------------------------------------
(* The frame time *)

\* a timer that counts up has been stepped by d, possibly after a restart
\* at 0 earlier in the same update, or has been restarted after its step
countedUp(after, before, d) == after \in {before + d, d, 0}

\* C17: every update(dt) in phase playing advances the elapsed time by
\* min(dt, 0.1 s), never by more than 0.1 s, and every timer it steps moves by
\* that amount: the spawn, hazard and wave timers, the combo timer, the ages
\* of projectiles, pickups and hazards, and the countdowns of the special
\* weapon, the charged shield, the weapon cooldown and the invulnerability.
C17_ClampedStep ==
  [][ call'.op = "update" /\ state = "playing" =>
        LET d == Min(call'.arg, 100)
        IN  /\ time' = time + d
            /\ time' - time <= 100
            /\ state' = "playing" =>
                 /\ countedUp(asteroidSpawnTimer', asteroidSpawnTimer, d)
                 /\ countedUp(hazardSpawnTimer', hazardSpawnTimer, d)
                 /\ countedUp(waveTimer', waveTimer, d)
                 /\ comboSystem.count > 0 =>
                      countedUp(comboSystem'.timer, comboSystem.timer, d)
                 /\ \A i \in DOMAIN projectiles' :
                      \/ projectiles'[i].age = d
                      \/ \E j \in DOMAIN projectiles :
                           projectiles'[i].age = projectiles[j].age + d
                 /\ \A i \in DOMAIN powerUps' :
                      \/ powerUps'[i].age = d
                      \/ \E j \in DOMAIN powerUps :
                           powerUps'[i].age = powerUps[j].age + d
                 /\ \A i \in DOMAIN hazards' :
                      \/ hazards'[i].timer = 0
                      \/ \E j \in DOMAIN hazards :
                           hazards'[i].timer = hazards[j].timer + d
                 /\ weaponSystem.currentWeapon # "default"
                      /\ weaponSystem.activeWeaponTimer > 0 =>
                      weaponSystem'.activeWeaponTimer \in
                        {weaponSystem.activeWeaponTimer - d}
                        \cup {Weapon(w).duration - d : w \in SpecialWeapons}
                 /\ player.shield.powerUpActive =>
                      player'.shield.powerUpTimer \in
                        {player.shield.powerUpTimer - d, 10000}
                 /\ player.weapons.cooldown > 0 =>
                      player'.weapons.cooldown =
                        Max(0, player.weapons.cooldown - 1000 * d)
                 /\ player.invulnerable =>
                      player'.invulnerabilityTimer \in
                        {Max(0, player.invulnerabilityTimer - d), 1000}
    ]_vars

\* update(0.25) has advanced a run at 20 s by 0.1 s: the time, the wave timer
\* and the age of the shot in flight
C17_Witness ==
  /\ call = Called("update", 250)
  /\ state = "playing"
  /\ time = 20100
  /\ waveTimer = 20100
  /\ hazardSpawnTimer = 20100
  /\ projectiles = << [InFlight EXCEPT !.age = @ + 100] >>

----------------------------------------------------------------------------
(* The end of a run *)

\* the step ends the run
RunEnds == state = "playing" /\ state' = "gameover"

----------------------------------------------------------------------------
(* The saved scores *)

\* how often x occurs in the list
Count(list, x) == Cardinality({i \in DOMAIN list : list[i] = x})

\* the entries of the list
Range(list) == {list[i] : i \in DOMAIN list}

\* the scores of the list do not increase
Descending(list) ==
  \A i, j \in DOMAIN list : i < j => list[i].score >= list[j].score

\* C19: after any sequence of successful saveScore calls of registered users
\* the stored global list holds every saved score, as often as it was saved
\* and nothing else, in an order of non-increasing score, and getTopScores(n)
\* returns the n highest saved scores (all of them if fewer are saved) in
\* descending order.
C19_GlobalScores ==
  /\ Len(storage.scores) = Len(saved)
  /\ \A x \in Range(saved) \cup Range(storage.scores) :
       Count(storage.scores, x) = Count(saved, x)
  /\ Descending(storage.scores)
  /\ call.op = "getTopScores" =>
       /\ Len(call.ret) = Min(call.arg, Len(saved))
       /\ Descending(call.ret)
       /\ \A x \in Range(call.ret) : Count(call.ret, x) <= Count(saved, x)
       /\ \A i \in DOMAIN call.ret :
            Cardinality({j \in DOMAIN saved : saved[j].score > call.ret[i].score}) < i

\* Runs with 120, 310 and 120 points have been saved in this order, by two
\* users, and getTopScores(2) has returned the run with 310 and the earlier
\* one with 120
C19_Witness ==
  /\ call.op = "getTopScores"
  /\ call.arg = 2
  /\ Len(saved) = 3
  /\ saved[1].score = 120 /\ saved[2].score = 310 /\ saved[3].score = 120
  /\ saved[1].username # saved[3].username
  /\ call.ret = << saved[2], saved[1] >>

----------------------------------------------------------------------------
(* A new run *)

\* C20: start(), called in any phase, yields phase playing with score 0,
\* wave 1, kills 0, elapsed time 0, empty asteroid, projectile, pickup and
\* hazard collections, combo count 0 with multiplier 1.0, the default weapon
\* with timer 0, level 1 with experience 0 and experience-to-next 100, spawn
\* rate 2.0 s, capacity 20, inactive boss flag and a new player at full health.
C20_StartResets ==
  [][ call'.op = "start" =>
        /\ state \in Phases
        /\ state' = "playing"
        /\ score' = 0 /\ wave' = 1 /\ kills' = 0 /\ time' = 0
        /\ asteroids' = << >> /\ projectiles' = << >>
        /\ powerUps' = << >> /\ hazards' = << >>
        /\ comboSystem'.count = 0 /\ comboSystem'.multiplier = 10
        /\ weaponSystem'.currentWeapon = "default"
        /\ weaponSystem'.activeWeaponTimer = 0
        /\ upgradeSystem'.level = 1
        /\ upgradeSystem'.experience = 0
        /\ upgradeSystem'.experienceToNext = 100
        /\ config'.asteroidSpawnRate = 0
        /\ config'.maxAsteroids = 20
        /\ bossSystem'.active = FALSE
        /\ player' = NewSpaceship
        /\ player'.health = player'.maxHealth
    ]_vars

\* start() has been called 10.1 s into the boss fight of wave 5, two frames
\* after the scene SceneBoss: the run is new, the wave timer is not
C20_Witness ==
  /\ call.op = "start"
  /\ steps = 3
  /\ waveTimer = 10100
  /\ state = "playing"
  /\ wave = 1 /\ time = 0 /\ score = 0
  /\ asteroids = << >>
  /\ bossSystem.active = FALSE
  /\ player = NewSpaceship

----------------------------------------------------------------------------
(* Bodies *)

\* C21: for a body whose static flag is set, no sequence of applyForce,
\* applyImpulse, applyForceAtPoint, update, resolveCollision and
\* separateObjects changes its position, its velocity or its angle.
C21_StaticBodyStays ==
  [][ \A i \in DOMAIN bodies :
        bodies[i].isStatic =>
          /\ bodies'[i].isStatic
          /\ bodies'[i].position = bodies[i].position
          /\ bodies'[i].velocity = bodies[i].velocity
          /\ bodies'[i].angle = bodies[i].angle
    ]_vars

\* The body flying into the static one has bounced off it and has moved on,
\* and update has been called for the static one: it is where it was, with
\* the velocity it was given
C21_Witness ==
  /\ steps = 3
  /\ call = Called("update", 1)
  /\ bodies[1] = Body(0, 0, 2000, 0, 1000, TRUE)
  /\ bodies[2].position # Vector2D(3000, 4000)
  /\ bodies[2].velocity.y.v > 0

\* the centres of the two bodies coincide, or their inverse masses add up to 0
Degenerate ==
  \/ bodies[1].position = bodies[2].position
  \/ fAdd(bodies[1].inverseMass, bodies[2].inverseMass) = Finite(0)

\* C22: resolveCollision and separateObjects called on degenerate inputs
\* (centres that coincide, or inverse masses that add up to zero) are no-ops:
\* the positions and velocities of both bodies are what they were, and no
\* result of a division by zero is in them.
C22_DegenerateNoOp ==
  [][ call'.op \in {"resolveCollision", "separateObjects"} /\ Degenerate =>
        \A i \in DOMAIN bodies :
          /\ bodies'[i].position = bodies[i].position
          /\ bodies'[i].velocity = bodies[i].velocity
    ]_vars

----------------------------------------------------------------------------
(* The order of the stages of update *)

\* C23: within one update the stages run in the order input, player,
\* asteroids with their collisions, projectiles with theirs, power-ups, combo
\* timer, weapon timer, hazards, asteroid spawner, hazard spawner, wave
\* progression.  What a step shows of it, d being its clamped frame time:
\* a shot fired by the input has its cooldown stepped by the player update and
\* its projectile aged by the projectile loop; a kill resets the combo timer
\* before the expiry check, so the streak goes on with its timer at d; a weapon
\* picked up has its timer stepped once; an asteroid that the spawner adds is
\* in the list untouched, made for the wave before the wave progression; a
\* hazard that its spawner adds has not been stepped.
C23_StageOrder ==
  [][ call'.op = "update" /\ state = "playing" /\ state' = "playing" =>
        LET d == Min(call'.arg, 100)
            spawned == Len(EventsOf(events', "spawn"))
            bossed == Len(EventsOf(events', "boss"))
        IN  /\ " " \in keys /\ canFire(player) =>
                 player'.weapons.cooldown =
                   Max(0, Weapon(weaponSystem.currentWeapon).fireRate - 1000 * d)
            /\ " " \in keys /\ canFire(player) =>
                 \A i \in DOMAIN projectiles' : projectiles'[i].age >= d
            /\ kills' > kills =>
                 /\ comboSystem'.count >= 1
                 /\ comboSystem'.timer = d
            /\ weaponSystem'.currentWeapon \notin {"default", weaponSystem.currentWeapon} =>
                 weaponSystem'.activeWeaponTimer =
                   Weapon(weaponSystem'.currentWeapon).duration - d
            /\ spawned <= 1
            /\ spawned = 1 =>
                 \E size \in AsteroidSizes :
                   asteroids'[Len(asteroids') - bossed] = SpawnedAsteroid(size, wave)
            /\ \A i \in DOMAIN hazards' :
                 hazards'[i].timer = 0 => hazards'[i] = NewHazard
    ]_vars

\* The tenth kill of a streak was 2.9 s ago; in a frame of 0.1 s a shot has
\* made the eleventh: the streak goes on, its timer at 0.1 s
C23_Witness ==
  /\ call = Called("update", 250)
  /\ time = 25100
  /\ kills = 11
  /\ comboSystem.count = 11
  /\ comboSystem.timer = 100

----------------------------------------------------------------------------
(* Kills and the combo *)

\* C24: every kill that increments the kill counter, a kill by the splash of
\* a chain reaction included, increments the combo count by one and resets
\* the combo timer to 0 (which the combo timer of the same update then steps).
C24_KillExtendsCombo ==
  [][ kills' > kills /\ call'.op \in {"update", "timeout"} =>
        /\ comboSystem'.count = comboSystem.count + (kills' - kills)
        /\ comboSystem'.timer = IF call'.op = "update" THEN Min(call'.arg, 100) ELSE 0
    ]_vars

----------------------------------------------------------------------------
(* The immunity after a hit *)

\* C25: after a hit that reduces the craft's health, every takeDamage call
\* made before 1.0 s of simulated time has passed leaves health and shield
\* strength as they are and returns false; so the health decreases at most
\* once in 1.0 s of simulated time, and the immunity ends with that time.
C25_Immunity ==
  [][ /\ call'.op = "takeDamage" /\ sinceHit >= 0 /\ sinceHit < 1000 =>
           /\ player'.health = player.health
           /\ player'.shield = player.shield
           /\ call'.ret = FALSE
      /\ player'.health < player.health =>
           /\ call'.op = "takeDamage"
           /\ sinceHit = -1 \/ sinceHit >= 1000
           /\ sinceHit' = 0
      /\ sinceHit' >= 0 /\ sinceHit' < 1000 => player'.invulnerable
      /\ sinceHit' >= 1000 => ~player'.invulnerable
    ]_vars

\* 0.95 s after it was rammed by a huge asteroid the craft has been hit with
\* more than its health: it has the health it had
C25_Witness ==
  /\ call = Returned("takeDamage", 12000, FALSE)
  /\ sinceHit = 950
  /\ player.invulnerable
  /\ player.health = PlayerHealth - SpawnedAsteroid("huge", 1).damage

----------------------------------------------------------------------------
(* The shots in flight *)

\* the number of elements of a sequence that satisfy a test
Matching(seq, Test(_)) == Cardinality({i \in DOMAIN seq : Test(seq[i])})

\* C26: a projectile leaves the collection in the update in which its age
\* reaches the lifetime of 3 s or in which it hits an asteroid, a hit costs a
\* projectile each, and no projectile of the collection is as old as the
\* lifetime: of the projectiles in flight in an update (those before it and
\* those its input stage fires), at most those that neither expired nor hit
\* are in flight after it, each older by the step.
C26_ProjectilesLeave ==
  [][ /\ \A i \in DOMAIN projectiles' :
           projectiles'[i].age >= 0 /\ projectiles'[i].age < ProjectileLifetime
      /\ call'.op = "update" /\ state = "playing" /\ state' = "playing" =>
           LET d == Min(call'.arg, MaxDeltaTime)
               expired == Matching(projectiles, LAMBDA pr : pr.age + d >= ProjectileLifetime)
               hits == Len(EventsOf(events', "hit"))
               flying == handleInput([Eng EXCEPT !.time = @ + d], d).projectiles
           IN  /\ Len(projectiles') <= Len(flying) - expired - hits
               /\ \A i \in DOMAIN projectiles' :
                    \E j \in DOMAIN flying :
                      /\ projectiles'[i] = [flying[j] EXCEPT !.age = @ + d]
                      /\ flying[j].age + d < ProjectileLifetime ]_vars

\* C26 witness: the update of 0.05 s in which the older missile reaches its
\* lifetime and the younger one hits the asteroid: none is left in flight
C26_Witness ==
  /\ call = Called("update", 50)
  /\ time = 20050
  /\ weaponSystem.currentWeapon = "missile"
  /\ projectiles = << >>
  /\ Len(EventsOf(events, "hit")) = 1
  /\ asteroids # << >>
  /\ asteroids[1].health = SpawnedAsteroid("medium", 1).health - Weapon("missile").damage

----------------------------------------------------------------------------
(* The pickups in the field *)

\* C27: a pickup leaves the collection in the update in which it is collected
\* or in which its age reaches the lifetime of 10 s, and it is applied at most
\* once and never after it has left: no pickup of the collection is marked
\* as collected or as old as the lifetime; only update awards a pickup; and
\* in an update the pickups awarded are at most the ones that left the
\* collection before their lifetime (counting the ones dropped in it), the
\* speed boosts applied at most the speed pickups among them, and the ones
\* that stay are older by the step.
C27_PickupsOnce ==
  [][ /\ \A i \in DOMAIN powerUps' :
           /\ ~powerUps'[i].collected
           /\ powerUps'[i].age >= 0 /\ powerUps'[i].age < PowerUpLifetime
      /\ call'.op # "update" => AwardsOf(awards', {"pickup"}) = << >>
      /\ call'.op = "update" /\ state = "playing" /\ state' = "playing" =>
           LET d == Min(call'.arg, MaxDeltaTime)
               live(t) == Matching(powerUps, LAMBDA pu : /\ pu.type = t
                                                         /\ ~pu.collected
                                                         /\ pu.age + d < PowerUpLifetime)
               dropped(t) == Matching(events', LAMBDA ev : ev.kind = "drop" /\ ev.size = t)
               stay(t) == Matching(powerUps', LAMBDA pu : pu.type = t)
               left(t) == live(t) + dropped(t) - stay(t)
               applied == Len(AwardsOf(awards', {"pickup"}))
           IN  /\ \A t \in PowerUpTypes : left(t) >= 0
               /\ applied <= left("health") + left("shield") + left("weapon") + left("speed")
               /\ config'.maxSpeedX - config.maxSpeedX >= 0
               /\ config'.maxSpeedX - config.maxSpeedX <= Min(applied, left("speed"))
               /\ score' - score = SumAwards(awards')
               /\ \A i \in DOMAIN powerUps' :
                    \/ powerUps'[i].age = d
                    \/ \E j \in DOMAIN powerUps :
                         powerUps'[i] = [powerUps[j] EXCEPT !.age = @ + d] ]_vars

\* C27 witness: the update of 0.05 s in which the weapon pickup reaches its
\* lifetime and the craft collects the speed pickup
C27_Witness ==
  /\ call = Called("update", 50)
  /\ time = 20050
  /\ kills = 2
  /\ powerUps = << >>
  /\ weaponSystem.currentWeapon = "default"
  /\ config.maxSpeedX = 1
  /\ Len(AwardsOf(awards, {"pickup"})) = 1
  /\ score = 2 * floorMul(killScoreMap("small"), 11) + 50

\* C28: the update in which a weapon pickup is collected leaves one of the
\* weapons laser, missile and shotgun active, its timer at the weapon's
\* duration less the step the weapon timer stage of the same update takes off;
\* otherwise an update takes the step off the timer of an active weapon other
\* than default and, when that leaves nothing, returns to the default weapon;
\* no other call changes the weapon but start; and in every state an active
\* weapon other than default has time left.
C28_WeaponTimer ==
  [][ /\ weaponSystem'.currentWeapon # "default" => weaponSystem'.activeWeaponTimer > 0
      /\ weaponSystem'.currentWeapon \in SpecialWeapons \cup {"default"}
      /\ call'.op \notin {"update", "start"} => weaponSystem' = weaponSystem
      /\ call'.op = "update" /\ state = "playing" /\ state' = "playing" =>
           LET d == Min(call'.arg, MaxDeltaTime)
               w == weaponSystem.currentWeapon
               t == weaponSystem.activeWeaponTimer
               left == Matching(powerUps, LAMBDA pu : pu.type = "weapon" /\ ~pu.collected
                                                      /\ pu.age + d < PowerUpLifetime)
                       + Matching(events', LAMBDA ev : ev.kind = "drop" /\ ev.size = "weapon")
                       - Matching(powerUps', LAMBDA pu : pu.type = "weapon")
               applied == Len(AwardsOf(awards', {"pickup"}))
               armed == /\ weaponSystem'.currentWeapon \in SpecialWeapons
                        /\ weaponSystem'.activeWeaponTimer =
                             Weapon(weaponSystem'.currentWeapon).duration - d
               timed == weaponSystem' =
                          IF w # "default" /\ t > 0
                            THEN [currentWeapon |-> IF t - d <= 0 THEN "default" ELSE w,
                                  activeWeaponTimer |-> t - d]
                            ELSE weaponSystem
           IN  /\ timed \/ (armed /\ left >= 1 /\ applied >= 1)
               /\ left >= 1 /\ applied >= 1
                    /\ Matching(powerUps, LAMBDA pu : pu.type # "weapon") = 0
                    /\ Matching(events', LAMBDA ev : ev.kind = "drop" /\ ev.size # "weapon") = 0
                    => armed ]_vars

\* C28 witness: the laser, with 0.08 s left, has run out in an update of
\* 0.1 s, and in the next update of 0.05 s the craft has collected the weapon
\* pickup, which armed the shotgun
C28_Witness ==
  /\ call = Called("update", 50)
  /\ time = 25150
  /\ steps = 2
  /\ powerUps = << >>
  /\ weaponSystem = [currentWeapon |-> "shotgun",
                     activeWeaponTimer |-> Weapon("shotgun").duration - 50]

----------------------------------------------------------------------------
(* The levels *)

\* experienceToNext after n more levels
RECURSIVE Grown(_, _)
Grown(toNext, n) == IF n = 0 THEN toNext ELSE Grown((toNext * 3) \div 2, n - 1)

\* the experience, in tenths, that n levels from the threshold toNext take
RECURSIVE Consumed(_, _)
Consumed(toNext, n) ==
  IF n = 0 THEN 0 ELSE toNext * 10 + Consumed((toNext * 3) \div 2, n - 1)

\* the upgrades taken so far
Taken(u) ==
  u.upgrades["damage"] + u.upgrades["fireRate"] + u.upgrades["health"]
  + u.upgrades["speed"] + u.upgrades["shield"]

\* C29: a call of addExperience ends with 0 <= experience < experienceToNext,
\* having gained n >= 0 levels: the level and the skill points are up by n,
\* the five upgrade counters, none of which went down, are up by n in all,
\* experienceToNext is n times the floor of 1.5 times itself, and the
\* experience is the one before plus the amount less the n thresholds.
C29_LevelUps ==
  [][ call'.op = "addExperience" =>
        LET u == upgradeSystem
            v == upgradeSystem'
            n == v.level - u.level
        IN  /\ n >= 0
            /\ v.skillPoints = u.skillPoints + n
            /\ Taken(v) = Taken(u) + n
            /\ \A k \in Upgrades : v.upgrades[k] >= u.upgrades[k]
            /\ v.experienceToNext = Grown(u.experienceToNext, n)
            /\ v.experience = u.experience + call'.arg - Consumed(u.experienceToNext, n)
            /\ v.experience >= 0
            /\ v.experience < v.experienceToNext * 10 ]_vars

\* C29 witness: 500 points of experience at level 1 have gained three levels
\* in one call (100 + 150 + 225 points) and left 25 points
C29_Witness ==
  /\ call = Called("addExperience", 5000)
  /\ steps = 1
  /\ upgradeSystem.level = 4
  /\ upgradeSystem.skillPoints = 3
  /\ upgradeSystem.experience = 250
  /\ upgradeSystem.experienceToNext = 337
  /\ upgradeSystem.upgrades["fireRate"] = 2
  /\ upgradeSystem.upgrades["health"] = 1

\* C30: after a fire-rate upgrade, the cooldown that a shot of the player
\* sets is shorter than the fire interval of the active weapon.
C30_FireRateUpgrade ==
  [][ /\ call'.op = "mousedown"
      /\ Len(projectiles') > Len(projectiles)
      /\ upgradeSystem.upgrades["fireRate"] >= 1
      => player'.weapons.cooldown < Weapon(weaponSystem.currentWeapon).fireRate ]_vars

----------------------------------------------------------------------------
(* The chain reaction *)

\* C31: the chain reaction ends.  A callback takes itself off the pending
\* ones and schedules one callback for each asteroid it destroys, none
\* otherwise, each with the radius taken 0.7 times once more; and with nothing
\* but the callbacks running, the time comes when none is pending.
C31_ChainEnds ==
  /\ [][ call'.op = "timeout" =>
           LET t == Head(timeouts)
               n == kills' - kills
           IN  /\ n >= 0
               /\ Len(timeouts') = Len(timeouts) - 1 + n
               /\ \A i \in 1..(Len(timeouts) - 1) : timeouts'[i] = timeouts[i + 1]
               /\ \A i \in Len(timeouts)..Len(timeouts') :
                    timeouts'[i] = Timeout(t.radius, t.depth + 1) ]_vars
  /\ <>(timeouts = << >>)

\* C31 witness: the chain has ended after callbacks three deep
C31_Witness ==
  /\ call = Called("timeout", 0)
  /\ timeouts = << >>
  /\ steps >= 4
  /\ kills >= 5

----------------------------------------------------------------------------
(* The hazards *)

----------------------------------------------------------------------------
(* The periodic spawner *)

\* C33: an update whose step takes the spawn timer to the spawn rate sets the
\* timer to 0 and adds one asteroid at most, any other one steps the timer and
\* adds none; and the spawner adds none to a field that holds maxAsteroids
\* asteroids or more when its turn comes (the boss that the wave progression
\* adds after it is not in the field yet).
C33_SpawnerCapacity ==
  [][ call'.op = "update" /\ state = "playing" /\ state' = "playing" =>
        LET d == Min(call'.arg, MaxDeltaTime)
            due == spawnDue(asteroidSpawnTimer + d, config.asteroidSpawnRate)
            spawned == Len(EventsOf(events', "spawn"))
            bossed == Len(EventsOf(events', "boss"))
        IN  /\ spawned <= 1
            /\ due => asteroidSpawnTimer' = 0
            /\ ~due => spawned = 0 /\ asteroidSpawnTimer' = asteroidSpawnTimer + d
            /\ Len(asteroids') - bossed - spawned >= config.maxAsteroids => spawned = 0
            /\ spawned = 1 => Len(asteroids') - bossed <= config.maxAsteroids ]_vars

\* C33 witness: with the 22 asteroids that the capacity of wave 2 allows in the
\* field, the spawner's turn has come: the timer is at 0 and no asteroid was
\* added
C33_Witness ==
  /\ call = Called("update", 250)
  /\ steps = 1
  /\ wave = 2
  /\ asteroidSpawnTimer = 0
  /\ Len(asteroids) = config.maxAsteroids
  /\ EventsOf(events, "spawn") = << >>

----------------------------------------------------------------------------
(* The waves *)

\* C34: the wave number goes up by one at a time, in an update, and the n-th
\* advance of a run comes when 30 s n of the run have elapsed at the least:
\* after it, the elapsed time of the run is at least 30 s for each wave
\* completed.
C34_WaveEpochs ==
  [][ wave' # wave /\ call'.op # "start" =>
        /\ call'.op = "update"
        /\ wave' = wave + 1
        /\ time' >= (wave' - 1) * WaveInterval ]_vars

----------------------------------------------------------------------------
(* The asteroids in the field *)

\* b is the asteroid a later on: of the same size, radius and mass, with no
\* more health
Later(a, b) ==
  /\ b.size = a.size /\ b.radius = a.radius /\ b.mass = a.mass
  /\ b.isBoss = a.isBoss
  /\ b.health <= a.health

\* the number of leading asteroids of the list new that are asteroids of the
\* list old later on, in the order of that list
RECURSIVE Stayed(_, _)
Stayed(new, old) ==
  IF new = << >> \/ old = << >>
    THEN 0
    ELSE IF Later(Head(old), Head(new))
           THEN 1 + Stayed(Tail(new), Tail(old))
           ELSE Stayed(new, Tail(old))

\* the asteroids that the events of a call have put into the field
RECURSIVE Created(_)
Created(ev) ==
  IF ev = << >>
    THEN 0
    ELSE (IF Head(ev).kind \in {"split", "spawn", "boss"} THEN Head(ev).count ELSE 0)
         + Created(Tail(ev))

\* C35: an asteroid in the field keeps its size, its radius and its mass and
\* gains no health: after every call the field is made of asteroids that
\* were in it before, unchanged but for the health they have lost, and of
\* the ones that the splits and the spawners of the call have created.
C35_AsteroidsOnlyLose ==
  [][ Len(asteroids') - Stayed(asteroids', asteroids) <= Created(events') ]_vars

\* C35 witness: a shot has destroyed one medium asteroid, the splash has
\* destroyed its two fragments and has taken 20 points off the other
\* medium asteroid, which is all that is left in the field
C35_Witness ==
  /\ call = Called("update", 50)
  /\ steps = 1
  /\ kills = 3
  /\ Created(events) = 2
  /\ asteroids = << [SpawnedAsteroid("medium", 1) EXCEPT
                       !.health = @ - ChainDamage, !.damage = @ + ChainDamage] >>

\* C36: between the calls of the engine (after the constructor, a start, an
\* update, a chain-reaction callback or an input handler has returned) every
\* asteroid of the list has health > 0: the update or the callback that
\* brings an asteroid's health to 0 or below takes it out of the list.
C36_LiveAsteroidsHealthy ==
  \A i \in DOMAIN asteroids : asteroids[i].health > 0

\* A chain-reaction callback has destroyed an asteroid after a projectile
\* destroyed another one, and asteroids are left in the list
C36_Witness ==
  /\ call = Called("timeout", 0)
  /\ kills >= 2
  /\ \E i \in DOMAIN awards : awards[i].kind = "chain"
  /\ asteroids # << >>

\* The damage an asteroid can have when it enters the field: that of
\* spawnAsteroid for its size in one of the waves so far, that of the boss,
\* or none for a fragment (the collision then takes the default)
SpawnDamages(ev) ==
  IF ev.isBoss
    THEN {BossDamage}
    ELSE {SpawnedAsteroid(ev.size, w).damage : w \in 1..wave}
         \cup {DefaultCollisionDamage}

\* C37: the damage with which an asteroid meets the craft is the one it had
\* when it entered the field, fixed by its size and the wave (or the default
\* for a fragment), whatever hits it has taken since.
C37_CollisionDamageFixed ==
  \A i \in DOMAIN events :
    events[i].kind = "ram" => events[i].count \in SpawnDamages(events[i])

\* C38: the pairs that getPotentialCollisions returns for the hash of a
\* collection of objects are the unordered pairs of two objects of one cell,
\* each of them once, and no pair of objects of different cells.
C38_BroadPhasePairs ==
  call.op = "getPotentialCollisions" =>
    LET pairs == call.ret
    IN  /\ \A i, j \in DOMAIN bodies :
             i < j /\ cellKey(bodies[i]) = cellKey(bodies[j]) =>
               Cardinality({k \in DOMAIN pairs :
                              {pairs[k][1], pairs[k][2]} = {bodies[i], bodies[j]}}) = 1
        /\ \A k \in DOMAIN pairs :
             /\ pairs[k][1] # pairs[k][2]
             /\ cellKey(pairs[k][1]) = cellKey(pairs[k][2])

\* C39: whatever effects are created and however the particles are updated,
\* the particle system never holds more than maxParticles particles.
C39_ParticleCeiling == Len(particles) <= maxParticles

\* C40: saveScore without score data, with a score or a duration that is not
\* of type number, or under a name that no user has registered returns a
\* failure and leaves the users and the scores of the storage as they were.
C40_SaveScoreRejects ==
  [][ /\ call'.op = "saveScore"
      /\ \/ ~call'.arg.scoreData.given
         \/ ~call'.arg.scoreData.numbers
         \/ userIndex(storage.users, call'.arg.username) = 0
      => /\ call'.ret = [success |-> FALSE, thrown |-> FALSE]
         /\ storage' = storage ]_vars

====
